---- MODULE Spec2Model ----
(***************************************************************************)
(* Verification model of the Klarna network payment selector demo:         *)
(*   - the backend relay (api/[...].ts, kn-api-requests.ts): credential    *)
(*     resolution, request validation, the single vendor call and the      *)
(*     interpretation of the vendor's answer;                              *)
(*   - the Paytrail signature signer;                                      *)
(*   - the browser UI's token cache (state.js, sdk.js, tokens.js, main.js).*)
(* The repository holds three builds of the relay; the variable `build`    *)
(* says which one is deployed:                                             *)
(*   "multi" : api/[...].ts second half and kn-api-requests.ts first half  *)
(*             (auth mode resolved per request, both Klarna endpoints),    *)
(*   "sp"    : api/[...].ts first half (Sub Partner credentials only),     *)
(*   "creds" : kn-api-requests.ts second half (Klarna API key supplied in  *)
(*             every request).                                             *)
(***************************************************************************)
EXTENDS Integers, Sequences, FiniteSets, TLC

VARIABLES
  build,        \* which build of the relay is deployed
  env,          \* process-wide configuration read at start-up
  pc,           \* position of the relay call being handled
  req,          \* the parsed request of the call being handled
  sent,         \* the outbound vendor request of this call
  vendorCalls,  \* number of outbound vendor requests made by this call
  resp,         \* the response returned to the caller
  klarnaResponse, \* the vendor's answer to the outbound request of this call
  servedBefore, \* whether the process has answered an earlier call
  paytrailEnv,  \* PAYTRAIL_MERCHANT_ID / PAYTRAIL_SECRET_KEY of the process
  clock,        \* wall clock of the signing process, in milliseconds
  uuidCount,    \* number of UUIDs drawn from crypto.randomUUID so far
  issued,       \* nonce and timestamp of every signing call made so far
  signedReq,    \* input and result of the latest signing call
  advancedFlow,           \* advancedFlowSel.value
  countrySel,             \* countrySel.value
  currentAuthMode,        \* state.js currentAuthMode
  klarna,                 \* state.js klarna: the cached SDK instance
  sdkToken,               \* state.js sdkToken (0 is null)
  interoperabilityToken,  \* state.js interoperabilityToken (0 is null)
  tasks,                  \* the async functions of the page suspended at an await
  abandoned,              \* cached tokens whose fetch began before a flow ended
  initCount,              \* for the cached SDK token, the KlarnaSDK() calls given it
  staleUses,              \* the calls of the latest step that carried an abandoned token
  lastRender,             \* what the latest step did, if it called renderBothPresentations
  initsSinceReset,        \* KlarnaSDK() calls made since the latest resetSDKState()
                          \* (-1 until resetSDKState() is first called; counted up to 2)
  lastStore,              \* what the latest step stored into the cache, and from when
  selectedIntents,        \* the intents of #selectedIntentsList, in displayed order
  paymentRequestData,     \* what the latest buildPaymentRequestData() returned
  productLocale,          \* product page: productLocaleSel.value
  currentSDKLocale,       \* product.js currentSDKLocale
  productKlarna,          \* product page: state.js klarna, an SDK instance (0 is null)
  sdkInstances,           \* product page: SDK instances KlarnaSDK() has returned
  completeHandlers,       \* per SDK instance, the product page's "complete" handlers
  buttonInstance,         \* the SDK instance whose button is mounted (0: none)
  productTasks,           \* initializePaymentButton() calls suspended at an await
  paymentPosts            \* POSTs to /api/payments made for the latest "complete"

relayVars ==
  <<build, env, pc, req, sent, vendorCalls, klarnaResponse, resp, servedBefore>>

signerVars == <<paytrailEnv, clock, uuidCount, issued, signedReq>>

uiCache == <<klarna, sdkToken, interoperabilityToken>>

formVars == <<selectedIntents, paymentRequestData>>

pageVars ==
  <<advancedFlow, countrySel, currentAuthMode, uiCache, tasks, abandoned,
    initCount, staleUses, lastRender, initsSinceReset, lastStore>>

productVars ==
  <<productLocale, currentSDKLocale, productKlarna, sdkInstances, completeHandlers,
    buttonInstance, productTasks, paymentPosts>>

uiVars == <<pageVars, formVars, productVars>>

vars == <<relayVars, signerVars, uiVars>>

\* JavaScript null / undefined
NULL == "null"

----------------------------------------------------------------------------
(* Process-wide configuration                                               *)

Builds == {"multi", "sp", "creds"}

\* each credential set is absent, incomplete (its last variable unset) or
\* complete
EnvConfigs ==
  {e \in [AP_CLIENT_ID : BOOLEAN, AP_API_KEY : BOOLEAN, PARTNER_ACCOUNT_ID : BOOLEAN,
          SP_CLIENT_ID : BOOLEAN, SP_API_KEY : BOOLEAN,
          KLARNA_CUSTOMER_TOKENS : {{}, {"US"}}] :
     /\ e.AP_API_KEY = e.AP_CLIENT_ID
     /\ e.PARTNER_ACCOUNT_ID => e.AP_CLIENT_ID
     /\ e.SP_API_KEY => e.SP_CLIENT_ID}

hasAcquiringPartnerConfig(e) ==
  e.AP_CLIENT_ID /\ e.AP_API_KEY /\ e.PARTNER_ACCOUNT_ID

hasSubPartnerConfig(e) == e.SP_CLIENT_ID /\ e.SP_API_KEY

NoAuth == [ok |-> FALSE, clientId |-> NULL, apiKey |-> NULL,
           partnerAccountId |-> NULL, isAcquiringPartner |-> FALSE]

\* getAuthConfig with its mode test the wrong way round
getAuthConfig_Inverted(e, mode) ==
  IF mode # "ACQUIRING_PARTNER"
  THEN IF e.AP_CLIENT_ID /\ e.AP_API_KEY /\ e.PARTNER_ACCOUNT_ID
       THEN [ok |-> TRUE, clientId |-> "AP_CLIENT_ID", apiKey |-> "AP_API_KEY",
             partnerAccountId |-> "PARTNER_ACCOUNT_ID",
             isAcquiringPartner |-> TRUE]
       ELSE NoAuth
  ELSE IF e.SP_CLIENT_ID /\ e.SP_API_KEY
       THEN [ok |-> TRUE, clientId |-> "SP_CLIENT_ID", apiKey |-> "SP_API_KEY",
             partnerAccountId |-> NULL, isAcquiringPartner |-> FALSE]
       ELSE NoAuth

getAuthConfig(e, mode) ==
  IF mode = "ACQUIRING_PARTNER"
  THEN IF e.AP_CLIENT_ID /\ e.AP_API_KEY /\ e.PARTNER_ACCOUNT_ID
       THEN [ok |-> TRUE, clientId |-> "AP_CLIENT_ID", apiKey |-> "AP_API_KEY",
             partnerAccountId |-> "PARTNER_ACCOUNT_ID",
             isAcquiringPartner |-> TRUE]
       ELSE NoAuth
  ELSE IF e.SP_CLIENT_ID /\ e.SP_API_KEY
       THEN [ok |-> TRUE, clientId |-> "SP_CLIENT_ID", apiKey |-> "SP_API_KEY",
             partnerAccountId |-> NULL, isAcquiringPartner |-> FALSE]
       ELSE NoAuth

\* a default that prefers Sub Partner when both modes are configured
defaultAuthMode_PrefersSubPartner(e) ==
  IF hasSubPartnerConfig(e) THEN "SUB_PARTNER" ELSE "ACQUIRING_PARTNER"

defaultAuthMode(e) ==
  IF hasAcquiringPartnerConfig(e) THEN "ACQUIRING_PARTNER" ELSE "SUB_PARTNER"

toUpperCase(s) ==
  CASE s = "sub_partner" -> "SUB_PARTNER"
    [] s = "acquiring_partner" -> "ACQUIRING_PARTNER"
    [] s = "us" -> "US"
    [] s = "se" -> "SE"
    [] OTHER -> s

\* resolveAuthConfig of the "multi" build; ok = FALSE stands for the throw
\* resolveAuthConfig with the requested mode dropped: always the default mode
resolveAuthConfig_IgnoresRequest(e, requestedMode) ==
  getAuthConfig(e, defaultAuthMode(e))

resolveAuthConfig(e, requestedMode) ==
  LET mode == IF requestedMode # NULL
                 /\ toUpperCase(requestedMode) \in {"SUB_PARTNER", "ACQUIRING_PARTNER"}
              THEN toUpperCase(requestedMode)
              ELSE defaultAuthMode(e)
      config == getAuthConfig(e, mode)
  IN IF ~config.ok THEN getAuthConfig(e, defaultAuthMode(e)) ELSE config

\* a resolver that hands out the Sub Partner set without checking it
resolveAuthConfigSp_Unchecked(e) ==
  [ok |-> TRUE, clientId |-> "SP_CLIENT_ID", apiKey |-> "SP_API_KEY",
   partnerAccountId |-> NULL, isAcquiringPartner |-> FALSE]

\* resolveAuthConfig of the "sp" build: always the Sub Partner credentials
resolveAuthConfigSp(e) == getAuthConfig(e, "SUB_PARTNER")

getCustomerTokenForCountry(e, country) ==
  IF country = NULL THEN NULL
  ELSE IF toUpperCase(country) \in e.KLARNA_CUSTOMER_TOKENS
       THEN IF toUpperCase(country) = "US" THEN "tok_US" ELSE "tok_SE"
       ELSE NULL

----------------------------------------------------------------------------
(* Requests, responses and vendor answers                                   *)

NoReq == [ep |-> NULL]
NoSent == [url |-> NULL]
NoAnswer == [kind |-> NULL]
NoResp == [http |-> 0, status |-> NULL, body |-> [none |-> TRUE]]

Respond(http, status, body) ==
  [kind |-> "respond", resp |-> [http |-> http, status |-> status, body |-> body]]

Send(out) == [kind |-> "send", out |-> out]

\* a handler that never recognises a wallet-only request
isOnlyAddToWallet_Never(r) == FALSE

isOnlyAddToWallet(r) == Len(r.intents) = 1 /\ r.intents[1] = "ADD_TO_WALLET"

\* a handler that falls back to a default payment option instead of rejecting
resolvedPaymentOptionId_Defaulted(r) ==
  IF r.paymentOptionId # NULL THEN r.paymentOptionId
  ELSE IF r.prdPaymentOptionId # NULL THEN r.prdPaymentOptionId
  ELSE "klarna"

resolvedPaymentOptionId(r) ==
  IF r.paymentOptionId # NULL THEN r.paymentOptionId ELSE r.prdPaymentOptionId


\* Trim of the klarnaApiKey request field ("creds" build)
apiKeyRaw(r) == IF r.klarnaApiKey \in {NULL, "  "} THEN "" ELSE r.klarnaApiKey

\* a customer-token header that does not look at the request's flag
customerTokenHeader_WithoutFlag(e, r) ==
  IF r.country # NULL THEN getCustomerTokenForCountry(e, r.country) ELSE NULL

\* The customer-token header value of a payment call
customerTokenHeader(e, r) ==
  IF r.includeCustomerToken /\ r.country # NULL
  THEN getCustomerTokenForCountry(e, r.country)
  ELSE NULL

callerReturnUrl(r) == IF r.returnUrl # NULL THEN r.returnUrl ELSE "origin/payment-complete"

\* supplementaryPurchaseData of a request body: absent, or an object with an
\* optional purchaseReference and an optional lineItems array.  The inputs
\* carry no ondemandService and no subscriptions.
NoPurchaseData == [present |-> FALSE]

MaxLineItems == 2

\* line items of a request; totalAmount is whatever the caller wrote, equal
\* to unitPrice times quantity or not
LineItems ==
  [name : {"item"}, quantity : {1, 2}, unitPrice : {100},
   totalAmount : {100, 150, 200}, lineItemReference : {NULL}]
  \cup
  [name : {"item"}, quantity : {2}, unitPrice : {100},
   totalAmount : {150}, lineItemReference : {"ref-1"}]

\* a line item whose total is worked out from the unit price and the quantity
lineItem_Recomputed(item) ==
  [name |-> item.name, quantity |-> item.quantity,
   total_amount |-> item.unitPrice * item.quantity,
   unit_price |-> item.unitPrice,
   line_item_reference |-> item.lineItemReference]

\* one element of line_items; line_item_reference NULL stands for an absent key
lineItem(item) ==
  [name |-> item.name, quantity |-> item.quantity,
   total_amount |-> item.totalAmount,
   unit_price |-> item.unitPrice,
   line_item_reference |-> item.lineItemReference]

\* the empty object is the record with no purchase_reference and no line_items
transformSupplementaryPurchaseData(data) ==
  IF ~data.present
  THEN [purchase_reference |-> NULL, has_line_items |-> FALSE, line_items |-> <<>>]
  ELSE [purchase_reference |-> data.purchaseReference,
        has_line_items |-> data.hasLineItems,
        line_items |-> IF data.hasLineItems
                       THEN [i \in 1..Len(data.lineItems) |-> lineItem(data.lineItems[i])]
                       ELSE <<>>]

\* a payload builder that copies the amount whatever the intents are
paymentRequestKeys_AlwaysAmount(b, r) ==
  {"currency", "payment_request_reference", "customer_interaction_config", "amount"}
  \cup (IF b = "multi" \/ resolvedPaymentOptionId(r) # NULL
        THEN {"payment_option_id"} ELSE {})
  \cup (IF r.supplementaryPurchaseData.present THEN {"supplementary_purchase_data"} ELSE {})
  \cup (IF r.requestCustomerToken THEN {"request_customer_token"} ELSE {})

\* Keys of the JSON payload POSTed to /v2/payment/requests
paymentRequestKeys(b, r) ==
  {"currency", "payment_request_reference", "customer_interaction_config"}
  \cup (IF b = "multi" \/ resolvedPaymentOptionId(r) # NULL
        THEN {"payment_option_id"} ELSE {})
  \cup (IF ~isOnlyAddToWallet(r) THEN {"amount"} ELSE {})
  \cup (IF r.supplementaryPurchaseData.present THEN {"supplementary_purchase_data"} ELSE {})
  \cup (IF r.requestCustomerToken THEN {"request_customer_token"} ELSE {})

paymentRequestOut(b, a, e, r) ==
  [url |-> "/v2/payment/requests",
   authorization |-> a.apiKey,
   authMode |-> IF a.isAcquiringPartner THEN "ACQUIRING_PARTNER" ELSE "SUB_PARTNER",
   networkSessionToken |-> r.klarnaNetworkSessionToken,
   customerToken |-> customerTokenHeader(e, r),
   interoperabilityToken |-> NULL,
   payment_option_id |-> resolvedPaymentOptionId(r),
   supplementary_purchase_data |->
     transformSupplementaryPurchaseData(r.supplementaryPurchaseData),
   keys |-> paymentRequestKeys(b, r)]

ErrorBody(msg) == [message |-> msg]

\* POST /api/payment-request up to its vendor call, "multi" build
\* the payment-request handler without its check of paymentRequestData
PaymentRequestMulti_NoDataCheck(e, r) ==
  LET auth == resolveAuthConfig(e, r.authMode) IN
  IF ~r.parsed THEN Respond(500, "ERROR", ErrorBody("Internal server error"))
  ELSE IF ~auth.ok
  THEN Respond(500, "ERROR",
               ErrorBody("Server configuration error: No authentication configured"))
  ELSE IF resolvedPaymentOptionId(r) = NULL
  THEN Respond(400, "ERROR", ErrorBody("Missing paymentOptionId"))
  ELSE Send(paymentRequestOut("multi", auth, e, r))

PaymentRequestMulti(e, r) ==
  LET auth == resolveAuthConfig(e, r.authMode) IN
  IF ~r.parsed THEN Respond(500, "ERROR", ErrorBody("Internal server error"))
  ELSE IF ~auth.ok
  THEN Respond(500, "ERROR",
               ErrorBody("Server configuration error: No authentication configured"))
  ELSE IF ~r.hasPRD
  THEN Respond(400, "ERROR",
               ErrorBody("Missing required field: paymentRequestData is required"))
  ELSE IF resolvedPaymentOptionId(r) = NULL
  THEN Respond(400, "ERROR", ErrorBody("Missing paymentOptionId"))
  ELSE Send(paymentRequestOut("multi", auth, e, r))

\* POST /api/payment-request up to its vendor call, "sp" build
PaymentRequestSp(e, r) ==
  LET auth == resolveAuthConfigSp(e) IN
  IF ~r.parsed THEN Respond(500, "ERROR", ErrorBody("Internal server error"))
  ELSE IF ~auth.ok
  THEN Respond(500, "ERROR",
               ErrorBody("Server configuration error: No authentication configured"))
  ELSE IF ~r.hasPRD
  THEN Respond(400, "ERROR",
               ErrorBody("Missing required field: paymentRequestData is required"))
  ELSE Send(paymentRequestOut("sp", auth, e, r))

\* POST /api/payment-request up to its vendor call, "creds" build
PaymentRequestCreds(e, r) ==
  LET auth == [ok |-> TRUE, clientId |-> NULL, apiKey |-> apiKeyRaw(r),
               partnerAccountId |-> NULL, isAcquiringPartner |-> FALSE] IN
  IF ~r.parsed THEN Respond(500, "ERROR", ErrorBody("Internal server error"))
  ELSE IF apiKeyRaw(r) = ""
  THEN Respond(400, "ERROR", ErrorBody("Klarna API Key is required"))
  ELSE IF ~r.hasPRD
  THEN Respond(400, "ERROR",
               ErrorBody("Missing required field: paymentRequestData is required"))
  ELSE Send(paymentRequestOut("creds", auth, e, r))

PaymentRequestPre(b, e, r) ==
  CASE b = "multi" -> PaymentRequestMulti(e, r)
    [] b = "sp" -> PaymentRequestSp(e, r)
    [] OTHER -> PaymentRequestCreds(e, r)


\* Keys of the JSON payload POSTed to the payment/authorize endpoint
authorizeKeys(r) ==
  {"currency", "supplementary_purchase_data", "step_up_config"}
  \cup (IF ~isOnlyAddToWallet(r) THEN {"request_payment_transaction"} ELSE {})
  \cup (IF r.requestCustomerToken THEN {"request_customer_token"} ELSE {})

accountId(a, r) ==
  IF r.partnerAccountId # NULL THEN r.partnerAccountId ELSE a.partnerAccountId

authorizeOut(a, e, r) ==
  [url |-> IF a.isAcquiringPartner
           THEN "/v2/accounts/{accountId}/payment/authorize"
           ELSE "/v2/payment/authorize",
   authorization |-> a.apiKey,
   authMode |-> IF a.isAcquiringPartner THEN "ACQUIRING_PARTNER" ELSE "SUB_PARTNER",
   networkSessionToken |-> r.klarnaNetworkSessionToken,
   customerToken |-> customerTokenHeader(e, r),
   interoperabilityToken |-> r.interoperabilityToken,
   payment_option_id |-> IF isOnlyAddToWallet(r) THEN NULL
                         ELSE resolvedPaymentOptionId(r),
   supplementary_purchase_data |->
     transformSupplementaryPurchaseData(r.supplementaryPurchaseData),
   keys |-> authorizeKeys(r)]

\* an authorize-payment handler that asks every request for a paymentOptionId
AuthorizePaymentPre_AlwaysRequired(e, r) ==
  LET auth == resolveAuthConfig(e, r.authMode) IN
  IF ~r.parsed THEN Respond(500, "ERROR", ErrorBody("Internal server error"))
  ELSE IF ~auth.ok
  THEN Respond(500, "ERROR",
               ErrorBody("Server configuration error: No authentication configured"))
  ELSE IF ~r.hasPRD
  THEN Respond(400, "ERROR",
               ErrorBody("Missing required field: paymentRequestData is required"))
  ELSE IF resolvedPaymentOptionId(r) = NULL
  THEN Respond(400, "ERROR", ErrorBody("Missing paymentOptionId"))
  ELSE IF auth.isAcquiringPartner /\ accountId(auth, r) = NULL
  THEN Respond(400, "ERROR", ErrorBody("Partner Account ID is required"))
  ELSE Send(authorizeOut(auth, e, r))

\* POST /api/authorize-payment up to its vendor call ("multi" build only)
AuthorizePaymentPre(e, r) ==
  LET auth == resolveAuthConfig(e, r.authMode) IN
  IF ~r.parsed THEN Respond(500, "ERROR", ErrorBody("Internal server error"))
  ELSE IF ~auth.ok
  THEN Respond(500, "ERROR",
               ErrorBody("Server configuration error: No authentication configured"))
  ELSE IF ~r.hasPRD
  THEN Respond(400, "ERROR",
               ErrorBody("Missing required field: paymentRequestData is required"))
  ELSE IF ~isOnlyAddToWallet(r) /\ resolvedPaymentOptionId(r) = NULL
  THEN Respond(400, "ERROR", ErrorBody("Missing paymentOptionId"))
  ELSE IF auth.isAcquiringPartner /\ accountId(auth, r) = NULL
  THEN Respond(400, "ERROR", ErrorBody("Partner Account ID is required"))
  ELSE Send(authorizeOut(auth, e, r))

\* a journey list that also lets the plain checkout journey through
validJourneys_WithCheckout ==
  {"KLARNA_EXPRESS_CHECKOUT", "SIGN_IN_WITH_KLARNA",
   "KLARNA_PRE_QUALIFICATION", "KLARNA_ACCOUNT_LINKING", "CHECKOUT"}

validJourneys ==
  {"KLARNA_EXPRESS_CHECKOUT", "SIGN_IN_WITH_KLARNA",
   "KLARNA_PRE_QUALIFICATION", "KLARNA_ACCOUNT_LINKING"}

interopOut(url, a, customerToken, interopToken, keys) ==
  [url |-> url,
   authorization |-> a.apiKey,
   authMode |-> IF a.isAcquiringPartner THEN "ACQUIRING_PARTNER" ELSE "SUB_PARTNER",
   networkSessionToken |-> NULL,
   customerToken |-> customerToken,
   interoperabilityToken |-> interopToken,
   payment_option_id |-> NULL,
   keys |-> keys]

\* POST /api/interoperability/test-tokens up to its vendor call
TestTokensPre(e, r) ==
  LET auth == resolveAuthConfig(e, r.authMode)
      customerToken == IF r.country # NULL
                       THEN getCustomerTokenForCountry(e, r.country) ELSE NULL
  IN
  IF ~r.parsed THEN Respond(500, "ERROR", ErrorBody("Internal server error"))
  ELSE IF ~auth.ok
  THEN Respond(500, "ERROR",
               ErrorBody("Server configuration error: No authentication configured"))
  ELSE IF ~auth.isAcquiringPartner
  THEN Respond(400, "ERROR",
               ErrorBody("Interoperability flows are only available for Acquiring Partners"))
  ELSE IF r.customerJourney = NULL
  THEN Respond(400, "ERROR", ErrorBody("Missing required field: customerJourney"))
  ELSE IF r.customerJourney \notin validJourneys
  THEN Respond(400, "ERROR", ErrorBody("Invalid customerJourney"))
  ELSE IF auth.partnerAccountId = NULL
  THEN Respond(500, "ERROR", ErrorBody("PARTNER_ACCOUNT_ID not set"))
  ELSE IF customerToken = NULL
  THEN Respond(400, "ERROR", ErrorBody("No customer token configured for country"))
  ELSE Send(interopOut("/v2/accounts/{accountId}/interoperability/test-tokens",
                       auth, customerToken, NULL, {"customer_journey"}))

\* POST /api/interoperability/sdk-tokens up to its vendor call
SdkTokensPre(e, r) ==
  LET auth == resolveAuthConfig(e, r.authMode) IN
  IF ~r.parsed THEN Respond(500, "ERROR", ErrorBody("Internal server error"))
  ELSE IF ~auth.ok
  THEN Respond(500, "ERROR",
               ErrorBody("Server configuration error: No authentication configured"))
  ELSE IF ~auth.isAcquiringPartner
  THEN Respond(400, "ERROR",
               ErrorBody("Interoperability flows are only available for Acquiring Partners"))
  ELSE IF r.interoperabilityToken = NULL
  THEN Respond(400, "ERROR", ErrorBody("Missing required field: interoperabilityToken"))
  ELSE IF auth.partnerAccountId = NULL
  THEN Respond(500, "ERROR", ErrorBody("PARTNER_ACCOUNT_ID not set"))
  ELSE Send(interopOut("/v2/accounts/{accountId}/interoperability/sdk-tokens",
                       auth, NULL, r.interoperabilityToken, {}))

\* the credential set a build resolves for a request that names requestedMode
resolveFor(b, e, requestedMode) ==
  IF b = "multi" THEN resolveAuthConfig(e, requestedMode) ELSE resolveAuthConfigSp(e)

\* POST /api/identity/sdk-tokens up to its vendor call (every build)
IdentitySdkTokensPre(b, e, r) ==
  LET auth == resolveFor(b, e, r.authMode)
      customerToken == IF r.country # NULL
                       THEN getCustomerTokenForCountry(e, r.country) ELSE NULL
  IN
  IF ~r.parsed THEN Respond(500, "ERROR", ErrorBody("Internal server error"))
  ELSE IF ~auth.ok
  THEN Respond(500, "ERROR",
               ErrorBody("Server configuration error: No authentication configured"))
  ELSE Send(interopOut(IF auth.isAcquiringPartner
                       THEN "/v2/accounts/{accountId}/identity/sdk-tokens"
                       ELSE "/v2/identity/sdk-tokens",
                       auth, customerToken, NULL, {}))

\* GET /api/presentation up to its vendor call (every build); only the build
\* that resolves the auth mode per request forwards an interoperability token
PresentationPre(b, e, r) ==
  LET auth == resolveFor(b, e, r.authMode) IN
  IF ~r.hasCurrency
  THEN Respond(400, "ERROR", ErrorBody("Missing required query parameter: currency"))
  ELSE IF ~auth.ok
  THEN Respond(500, "ERROR",
               ErrorBody("Server configuration error: No authentication configured"))
  ELSE Send(interopOut(IF auth.isAcquiringPartner
                       THEN "/v2/accounts/{accountId}/payment/presentation"
                       ELSE "/v2/payment/presentation",
                       auth, customerTokenHeader(e, r),
                       IF b = "multi" THEN r.interoperabilityToken ELSE NULL,
                       {"currency"}))

\* GET /api/merchants/payment-providers up to the call made by
\* makePaytrailRequestWithCreds ("creds" build: credentials in request headers)
PaymentProvidersPre(r) ==
  IF r.paytrailMerchantId = NULL \/ r.paytrailSecretKey = NULL
  THEN Respond(400, NULL,
               [error |-> "Paytrail credentials required", message |-> "Send headers",
                timestamp |-> "now"])
  ELSE Send([url |-> "paytrail/merchants/payment-providers",
             authorization |-> r.paytrailMerchantId,
             authMode |-> NULL,
             networkSessionToken |-> NULL,
             customerToken |-> NULL,
             interoperabilityToken |-> NULL,
             payment_option_id |-> NULL,
             keys |-> {}])

PaytrailEps ==
  {"payments", "payments/klarna/charge", "payments/klarna/authorization-hold"}

\* String(x).trim() of a credential field, "" when the field is absent
trim(x) == IF x = NULL \/ x = "  " THEN "" ELSE x

paytrailOut(ep, account) ==
  [url |-> ep, authorization |-> account, authMode |-> NULL,
   networkSessionToken |-> NULL, customerToken |-> NULL,
   interoperabilityToken |-> NULL, payment_option_id |-> NULL,
   keys |-> {"payment"}]

PaytrailError(http, error) ==
  Respond(http, NULL, [error |-> error, message |-> "message", timestamp |-> "now"])

\* the fields a payment must hold (with a truthy value), in the order the
\* handler lists them; the two Klarna endpoints do not ask for redirectUrls
requiredFields(ep) ==
  IF ep = "payments"
  THEN <<"stamp", "reference", "amount", "currency", "customer", "redirectUrls">>
  ELSE <<"stamp", "reference", "amount", "currency", "customer">>

\* a check of the payment that lets one without redirectUrls through
missingFields_NoRedirectUrls(r) ==
  SelectSeq(requiredFields("payments/klarna/charge"), LAMBDA f : f \notin r.fields)

missingFields(r) == SelectSeq(requiredFields(r.ep), LAMBDA f : f \notin r.fields)

MissingRequiredFields(missing) ==
  Respond(400, NULL,
          [error |-> "Missing required fields", missing |-> missing,
           timestamp |-> "now"])

\* a handler that signs with whatever the request holds, credentials or not
PaytrailPaymentsCreds_Unchecked(r) ==
  IF ~r.parsed THEN PaytrailError(500, "Failed to create payment with Paytrail API")
  ELSE Send(paytrailOut(r.ep, trim(r.paytrailMerchantId)))

\* POST /api/payments, /api/payments/klarna/charge and
\* /api/payments/klarna/authorization-hold up to the call of Paytrail, in the
\* build that takes merchantId and secretKey from the request body
PaytrailPaymentsCreds(r) ==
  IF ~r.parsed THEN PaytrailError(500, "Failed to create payment with Paytrail API")
  ELSE IF trim(r.paytrailMerchantId) = "" \/ trim(r.paytrailSecretKey) = ""
  THEN PaytrailError(400, "Paytrail credentials required")
  ELSE IF ~r.hasPayment THEN PaytrailError(400, "Missing payment payload")
  ELSE IF Len(missingFields(r)) > 0 THEN MissingRequiredFields(missingFields(r))
  ELSE Send(paytrailOut(r.ep, trim(r.paytrailMerchantId)))

\* the same endpoints in the builds that sign with PAYTRAIL_MERCHANT_ID and
\* PAYTRAIL_SECRET_KEY of the process: the request body is the payment
PaytrailPaymentsEnv(pe, r) ==
  IF pe.PAYTRAIL_MERCHANT_ID = NULL \/ pe.PAYTRAIL_SECRET_KEY = NULL
  THEN PaytrailError(500, "Paytrail credentials not configured")
  ELSE IF ~r.parsed THEN PaytrailError(500, "Failed to create payment with Paytrail API")
  ELSE IF Len(missingFields(r)) > 0 THEN MissingRequiredFields(missingFields(r))
  ELSE Send(paytrailOut(r.ep, pe.PAYTRAIL_MERCHANT_ID))

PaytrailPaymentsPre(b, pe, r) ==
  IF b = "creds" THEN PaytrailPaymentsCreds(r) ELSE PaytrailPaymentsEnv(pe, r)

\* The relay handler of request r up to its first await on the vendor
HandlePre(b, e, r) ==
  CASE r.ep = "payment-request" -> PaymentRequestPre(b, e, r)
    [] r.ep = "authorize-payment" -> AuthorizePaymentPre(e, r)
    [] r.ep = "interoperability/test-tokens" -> TestTokensPre(e, r)
    [] r.ep = "merchants/payment-providers" -> PaymentProvidersPre(r)
    [] r.ep = "identity/sdk-tokens" -> IdentitySdkTokensPre(b, e, r)
    [] r.ep = "presentation" -> PresentationPre(b, e, r)
    [] r.ep \in PaytrailEps -> PaytrailPaymentsPre(b, paytrailEnv, r)
    [] OTHER -> SdkTokensPre(e, r)


----------------------------------------------------------------------------
(* Interpretation of the vendor's answer                                    *)

\* Response.ok of the fetch API
ok(status) == status >= 200 /\ status <= 299

Done(http, status, body) ==
  [next |-> "done", resend |-> 0,
   resp |-> [http |-> http, status |-> status, body |-> body]]

\* the catch block of a handler: fetch rejected or the vendor body is not JSON
\* a catch block that sends the vendor request again instead of answering
Caught_Retry == [next |-> "sent", resend |-> 1, resp |-> NoResp]

Caught == Done(500, "ERROR", [message |-> "exception message"])

vendorErrorMessage(v, fallback) ==
  IF v.error_message # NULL THEN v.error_message ELSE fallback

\* the non-2xx branch shared by the Klarna handlers
\* an error response that passes the vendor's state through as its outcome tag
VendorError_VendorState(out, v, fallback) ==
  Done(v.status, v.state,
       [message |-> vendorErrorMessage(v, fallback), details |-> "klarnaData",
        _request |-> out.authMode, _response |-> "responseMeta"])

VendorError(out, v, fallback) ==
  Done(v.status, "ERROR",
       [message |-> vendorErrorMessage(v, fallback), details |-> "klarnaData",
        _request |-> out.authMode, _response |-> "responseMeta"])

\* the non-2xx branch of the "creds" build, which appends validation_errors
VendorErrorCreds(out, v, fallback) ==
  IF v.validation_errors
  THEN Done(v.status, "ERROR",
            [message |-> IF v.error_message # NULL
                         THEN "vendor message + validation_errors"
                         ELSE "fallback + validation_errors",
             details |-> "klarnaData", validation_errors |-> "validationErrors",
             _request |-> out.authMode, _response |-> "responseMeta"])
  ELSE VendorError(out, v, fallback)

\* a reader that takes the identifiers from the top level of the vendor body
customer_interaction_TopLevel(v) ==
  [payment_request_id |-> v.payment_request_id, payment_request_url |-> NULL]

\* klarnaData.state_context?.customer_interaction: its two fields, undefined
\* when the vendor body has no such object
customer_interaction(v) ==
  IF v.sc
  THEN [payment_request_id |-> v.sc_payment_request_id,
        payment_request_url |-> v.sc_payment_request_url]
  ELSE [payment_request_id |-> NULL, payment_request_url |-> NULL]

\* a success URL that prefers the caller's returnUrl to the vendor's echo
returnUrlFromResponse_CallerFirst(r, v) ==
  IF r.returnUrl # NULL THEN r.returnUrl
  ELSE IF v.ci_return_url # NULL THEN v.ci_return_url
  ELSE "/payment-complete"

\* klarnaData.customer_interaction_config?.return_url || returnUrl ||
\* "/payment-complete"
returnUrlFromResponse(r, v) ==
  IF v.ci_return_url # NULL THEN v.ci_return_url
  ELSE IF r.returnUrl # NULL THEN r.returnUrl
  ELSE "/payment-complete"

\* POST /api/payment-request after the vendor answered
PaymentRequestPost(b, r, out, v) ==
  IF v.kind = "neterr" \/ ~v.json THEN Caught
  ELSE IF ~ok(v.status)
  THEN IF b = "creds"
       THEN VendorErrorCreds(out, v, "Payment request creation failed")
       ELSE VendorError(out, v, "Payment request creation failed")
  ELSE IF v.state = "COMPLETED"
  THEN Done(200, "COMPLETED",
            [paymentRequestId |-> v.payment_request_id,
             successUrl |-> returnUrlFromResponse(r, v),
             expiresAt |-> v.expires_at,
             _request |-> out.authMode, _response |-> "responseMeta"])
  ELSE Done(200, "CREATED",
            [paymentRequestId |-> customer_interaction(v).payment_request_id,
             paymentRequestUrl |-> customer_interaction(v).payment_request_url,
             expiresAt |-> v.expires_at,
             _request |-> out.authMode, _response |-> "responseMeta"])

\* a handler that reads the payment result whenever the vendor sent one
authorizeResult_PaymentFirst(r, v) ==
  IF v.payment_result # NULL THEN v.payment_result ELSE v.ct_result

\* the result field an authorize-payment call looks at
authorizeResult(r, v) ==
  IF isOnlyAddToWallet(r) THEN v.ct_result ELSE v.payment_result

\* a handler that always reports the decline reason of the payment transaction
declineReason_OfPayment(r, v) == v.payment_result_reason

\* the result_reason next to the result the call looks at
declineReason(r, v) ==
  IF isOnlyAddToWallet(r) THEN v.ct_result_reason ELSE v.payment_result_reason

\* a handler whose switch treats every unknown result as a decline
AuthorizePaymentPost_DefaultDeclined(r, out, v) ==
  IF v.kind = "neterr" \/ ~v.json THEN Caught
  ELSE IF ~ok(v.status) THEN VendorError(out, v, "Payment authorization failed")
  ELSE Done(200,
            IF authorizeResult(r, v) \in {"STEP_UP_REQUIRED", "APPROVED"}
            THEN authorizeResult(r, v) ELSE "DECLINED",
            [message |-> "Request declined", reason |-> declineReason(r, v),
             _request |-> out.authMode, _response |-> "responseMeta"])

\* POST /api/authorize-payment after the vendor answered
AuthorizePaymentPost(r, out, v) ==
  IF v.kind = "neterr" \/ ~v.json THEN Caught
  ELSE IF ~ok(v.status) THEN VendorError(out, v, "Payment authorization failed")
  ELSE CASE authorizeResult(r, v) = "STEP_UP_REQUIRED" ->
              Done(200, "STEP_UP_REQUIRED",
                   [paymentRequestId |-> customer_interaction(v).payment_request_id,
                    paymentRequestUrl |-> customer_interaction(v).payment_request_url,
                    expiresAt |-> v.expires_at,
                    _request |-> out.authMode, _response |-> "responseMeta"])
         [] authorizeResult(r, v) = "APPROVED" ->
              IF isOnlyAddToWallet(r)
              THEN Done(200, "APPROVED",
                        [customerTokenId |-> v.customer_token_id,
                         customerTokenReference |-> v.customer_token_reference,
                         successUrl |-> IF r.returnUrl # NULL THEN r.returnUrl
                                        ELSE "/payment-complete",
                         _request |-> out.authMode, _response |-> "responseMeta"])
              ELSE Done(200, "APPROVED",
                        [paymentTransactionId |-> v.payment_transaction_id,
                         paymentTransactionReference |-> v.payment_transaction_reference,
                         successUrl |-> IF r.returnUrl # NULL THEN r.returnUrl
                                        ELSE "/payment-complete",
                         _request |-> out.authMode, _response |-> "responseMeta"])
         [] authorizeResult(r, v) = "DECLINED" ->
              Done(200, "DECLINED",
                   [message |-> IF declineReason(r, v) # NULL THEN declineReason(r, v)
                                ELSE "Request declined",
                    reason |-> declineReason(r, v),
                    _request |-> out.authMode, _response |-> "responseMeta"])
         [] OTHER ->
              Done(500, "ERROR",
                   [message |-> "Unexpected result", details |-> "klarnaData",
                    _request |-> out.authMode, _response |-> "responseMeta"])

\* POST /api/interoperability/test-tokens after the vendor answered
TestTokensPost(out, v) ==
  IF v.kind = "neterr" \/ ~v.json THEN Caught
  ELSE IF ~ok(v.status)
  THEN VendorError(out, v, "Interoperability test token generation failed")
  ELSE Done(200, "OK",
            [interoperabilityToken |-> v.token,
             _request |-> out.authMode, _response |-> "responseMeta"])

\* POST /api/interoperability/sdk-tokens after the vendor answered
SdkTokensPost(out, v) ==
  IF v.kind = "neterr" \/ ~v.json THEN Caught
  ELSE IF ~ok(v.status)
  THEN VendorError(out, v, "Interoperability SDK token generation failed")
  ELSE Done(200, "OK",
            [sdkToken |-> v.token,
             _request |-> out.authMode, _response |-> "responseMeta"])

\* POST /api/identity/sdk-tokens after the vendor answered
IdentitySdkTokensPost(out, v) ==
  IF v.kind = "neterr" \/ ~v.json THEN Caught
  ELSE IF ~ok(v.status) THEN VendorError(out, v, "SDK token generation failed")
  ELSE Done(200, "OK",
            [sdkToken |-> v.token, expiresAt |-> v.expires_at,
             _request |-> out.authMode, _response |-> "responseMeta"])

\* GET /api/presentation after the vendor answered
PresentationPost(out, v) ==
  IF v.kind = "neterr" \/ ~v.json THEN Caught
  ELSE IF ~ok(v.status) THEN VendorError(out, v, "Presentation API failed")
  ELSE Done(200, "OK",
            [presentation |-> "klarnaData",
             _request |-> out.authMode, _response |-> "responseMeta"])

\* makePaytrailRequestWithCreds after its fetch settled, and the handler of
\* GET /api/merchants/payment-providers around it: a non-2xx answer is thrown
\* and caught by the handler
PaymentProvidersPost(v) ==
  IF v.kind = "neterr" \/ ~v.json \/ ~ok(v.status)
  THEN Done(500, NULL,
            [error |-> "Failed to fetch payment providers from Paytrail API",
             message |-> "exception message", timestamp |-> "now"])
  ELSE Done(200, NULL, [providers |-> "paytrail response"])

PaytrailFailure(http, error) ==
  Done(http, NULL, [error |-> error, message |-> "message", timestamp |-> "now"])

\* POST /api/payments after makePaytrailRequest settled: a non-2xx answer is
\* thrown; the build that takes credentials per request answers with
\* Paytrail's status when it is 400 or more, the other builds with 500
PaytrailPaymentsPost(b, v) ==
  IF v.kind = "neterr" \/ (ok(v.status) /\ ~v.json)
  THEN PaytrailFailure(500, "Failed to create payment with Paytrail API")
  ELSE IF ~ok(v.status)
  THEN PaytrailFailure(IF b = "creds" /\ v.status >= 400 THEN v.status ELSE 500,
                       "Failed to create payment with Paytrail API")
  ELSE Done(201, NULL, [response |-> "paytrail response"])

\* a charge relay that takes every 200 or 201 of Paytrail for a success
PaytrailChargePost_AnySuccess(b, v) ==
  IF v.kind = "neterr"
  THEN PaytrailFailure(500, "Failed to create payment with Paytrail API")
  ELSE IF ~v.json THEN PaytrailFailure(500, "Failed to parse Paytrail response")
  ELSE IF v.status \in {200, 201}
  THEN Done(201, NULL, [transactionId |-> v.transactionId])
  ELSE PaytrailFailure(IF v.status >= 400 /\ v.status < 500 THEN v.status ELSE 500,
                       "Unexpected response from Paytrail")

\* POST /api/payments/klarna/charge and .../authorization-hold after fetch;
\* only the build that takes credentials per request has a branch of its own
\* for Paytrail's 500
PaytrailChargePost(b, v) ==
  IF v.kind = "neterr"
  THEN PaytrailFailure(500, "Failed to create payment with Paytrail API")
  ELSE IF ~v.json THEN PaytrailFailure(500, "Failed to parse Paytrail response")
  ELSE IF v.status \in {200, 201}
  THEN IF v.transactionId # NULL
       THEN Done(201, NULL, [transactionId |-> v.transactionId])
       ELSE PaytrailFailure(500, "Unexpected response format from Paytrail")
  ELSE IF v.status = 403
  THEN IF v.transactionId # NULL /\ v.stepUpUrl # NULL
       THEN Done(403, NULL, [transactionId |-> v.transactionId,
                             stepUpUrl |-> v.stepUpUrl, error |-> "Step-up required"])
       ELSE PaytrailFailure(500, "Unexpected response format from Paytrail")
  ELSE IF b = "creds" /\ v.status = 500
  THEN PaytrailFailure(500, "Paytrail server error")
  ELSE PaytrailFailure(IF v.status >= 400 /\ v.status < 500 THEN v.status ELSE 500,
                       "Unexpected response from Paytrail")

\* The relay handler of request r from the vendor's answer v to its response
HandlePost(b, r, out, v) ==
  CASE r.ep = "payment-request" -> PaymentRequestPost(b, r, out, v)
    [] r.ep = "authorize-payment" -> AuthorizePaymentPost(r, out, v)
    [] r.ep = "interoperability/test-tokens" -> TestTokensPost(out, v)
    [] r.ep = "merchants/payment-providers" -> PaymentProvidersPost(v)
    [] r.ep = "identity/sdk-tokens" -> IdentitySdkTokensPost(out, v)
    [] r.ep = "presentation" -> PresentationPost(out, v)
    [] r.ep = "payments" -> PaytrailPaymentsPost(b, v)
    [] r.ep \in PaytrailEps -> PaytrailChargePost(b, v)
    [] OTHER -> SdkTokensPost(out, v)


----------------------------------------------------------------------------
(* Inputs of the relay: request bodies and vendor answers                   *)

AuthModes == {NULL, "SUB_PARTNER", "ACQUIRING_PARTNER", "sub_partner", "BOGUS"}

IntentLists == {<<>>, <<"ADD_TO_WALLET">>, <<"PAY">>}

\* the optional data fields of a payment call, varied together
DataProfiles ==
  {[returnUrl |-> NULL, includeCustomerToken |-> FALSE, country |-> NULL,
    klarnaNetworkSessionToken |-> NULL, hasSupplementary |-> FALSE,
    requestCustomerToken |-> FALSE],
   [returnUrl |-> "https://shop/return", includeCustomerToken |-> TRUE, country |-> "us",
    klarnaNetworkSessionToken |-> "nst_1", hasSupplementary |-> TRUE,
    requestCustomerToken |-> TRUE],
   [returnUrl |-> "https://shop/return", includeCustomerToken |-> TRUE, country |-> "SE",
    klarnaNetworkSessionToken |-> NULL, hasSupplementary |-> TRUE,
    requestCustomerToken |-> FALSE],
   [returnUrl |-> NULL, includeCustomerToken |-> FALSE, country |-> "US",
    klarnaNetworkSessionToken |-> NULL, hasSupplementary |-> FALSE,
    requestCustomerToken |-> TRUE]}

\* the supplementary purchase data the requests of the relay carry
PurchaseData ==
  [present |-> TRUE, purchaseReference |-> "purchase-1", hasLineItems |-> TRUE,
   lineItems |-> <<[name |-> "item", quantity |-> 1, unitPrice |-> 100,
                    totalAmount |-> 100, lineItemReference |-> NULL]>>]

RECURSIVE SeqsUpTo(_, _)
SeqsUpTo(S, n) ==
  IF n = 0 THEN {<<>>}
  ELSE LET shorter == SeqsUpTo(S, n - 1) IN
       shorter \cup {Append(q, x) : q \in {t \in shorter : Len(t) = n - 1}, x \in S}

\* every supplementaryPurchaseData of up to MaxLineItems line items
PurchaseInputs ==
  {NoPurchaseData,
   [present |-> TRUE, purchaseReference |-> NULL, hasLineItems |-> FALSE,
    lineItems |-> <<>>]}
  \cup [present : {TRUE}, purchaseReference : {"purchase-1"}, hasLineItems : {TRUE},
        lineItems : SeqsUpTo(LineItems, MaxLineItems)]

EmptyReq(ep) ==
  [ep |-> ep, parsed |-> TRUE, authMode |-> NULL, klarnaApiKey |-> NULL,
   hasPRD |-> FALSE, paymentOptionId |-> NULL, prdPaymentOptionId |-> NULL,
   intents |-> <<>>, returnUrl |-> NULL, includeCustomerToken |-> FALSE,
   country |-> NULL, klarnaNetworkSessionToken |-> NULL,
   supplementaryPurchaseData |-> NoPurchaseData, requestCustomerToken |-> FALSE,
   interoperabilityToken |-> NULL, partnerAccountId |-> NULL,
   customerJourney |-> NULL, hasCurrency |-> FALSE,
   hasPayment |-> FALSE, fields |-> {},
   paytrailMerchantId |-> NULL, paytrailSecretKey |-> NULL]

\* the credential fields a build reads from the request
CredentialInputs(b) ==
  IF b = "multi" THEN {[authMode |-> m, klarnaApiKey |-> NULL] : m \in AuthModes}
  ELSE IF b = "sp" THEN {[authMode |-> NULL, klarnaApiKey |-> NULL],
                         [authMode |-> "ACQUIRING_PARTNER", klarnaApiKey |-> NULL]}
  ELSE {[authMode |-> NULL, klarnaApiKey |-> k] : k \in {NULL, "  ", "apikey"}}

PaymentBodies(b, ep) ==
  {[EmptyReq(ep) EXCEPT !.authMode = c.authMode, !.klarnaApiKey = c.klarnaApiKey,
                        !.paymentOptionId = p] :
      c \in CredentialInputs(b), p \in {NULL, "po_top"}}
  \cup
  {[EmptyReq(ep) EXCEPT !.authMode = c.authMode, !.klarnaApiKey = c.klarnaApiKey,
                        !.hasPRD = TRUE, !.paymentOptionId = p,
                        !.prdPaymentOptionId = q, !.intents = i,
                        !.returnUrl = d.returnUrl,
                        !.includeCustomerToken = d.includeCustomerToken,
                        !.country = d.country,
                        !.klarnaNetworkSessionToken = d.klarnaNetworkSessionToken,
                        !.supplementaryPurchaseData =
                          IF d.hasSupplementary THEN PurchaseData ELSE NoPurchaseData,
                        !.requestCustomerToken = d.requestCustomerToken,
                        !.interoperabilityToken = t] :
      c \in CredentialInputs(b), p \in {NULL, "po_top"}, q \in {NULL, "po_prd"},
      i \in IntentLists, d \in DataProfiles,
      t \in IF ep = "authorize-payment" THEN {NULL, "iop_1"} ELSE {NULL}}

TestTokenBodies ==
  {[EmptyReq("interoperability/test-tokens") EXCEPT
      !.authMode = m, !.customerJourney = j, !.country = c] :
      m \in AuthModes,
      j \in {NULL, "KLARNA_EXPRESS_CHECKOUT", "SIGN_IN_WITH_KLARNA",
             "KLARNA_PRE_QUALIFICATION", "KLARNA_ACCOUNT_LINKING", "CHECKOUT"},
      c \in {NULL, "US", "SE"}}

SdkTokenBodies ==
  {[EmptyReq("interoperability/sdk-tokens") EXCEPT
      !.authMode = m, !.interoperabilityToken = t] :
      m \in AuthModes, t \in {NULL, "iop_1"}}

ProviderRequests ==
  {[EmptyReq("merchants/payment-providers") EXCEPT
      !.paytrailMerchantId = m, !.paytrailSecretKey = k] :
      m \in {NULL, "375917"}, k \in {NULL, "SAIPPUAKAUPPIAS"}}

\* the fields of the payment of a request that hold a truthy value: all six,
\* all but redirectUrls, all but amount (absent or 0) and customer, none
PaymentFields ==
  LET all == {"stamp", "reference", "amount", "currency", "customer", "redirectUrls"}
  IN {all, all \ {"redirectUrls"}, all \ {"amount", "customer"}, {}}

\* requests to the second-vendor endpoints a build serves
PaytrailRequests(b) ==
  LET PaytrailEpsOf == IF b = "multi" THEN {"payments"} ELSE PaytrailEps IN
  {[EmptyReq(ep) EXCEPT !.paytrailMerchantId = m, !.paytrailSecretKey = k,
                        !.hasPayment = p,
                        !.fields = IF p THEN f ELSE {}] :
      ep \in PaytrailEpsOf, m \in {NULL, "  ", "375917"},
      k \in {NULL, "SAIPPUAKAUPPIAS"}, p \in BOOLEAN, f \in PaymentFields}
  \cup {[EmptyReq(ep) EXCEPT !.parsed = FALSE] : ep \in PaytrailEpsOf}

\* the auth modes a client of build b names
RequestedModes(b) == {c.authMode : c \in CredentialInputs(b)}

IdentityBodies(b) ==
  {[EmptyReq("identity/sdk-tokens") EXCEPT !.authMode = m, !.country = c] :
      m \in RequestedModes(b), c \in {NULL, "US"}}

PresentationQueries(b) ==
  {[EmptyReq("presentation") EXCEPT
      !.authMode = m, !.hasCurrency = h, !.includeCustomerToken = (c # NULL),
      !.country = c, !.interoperabilityToken = t] :
      m \in RequestedModes(b), h \in BOOLEAN, c \in {NULL, "US"},
      t \in {NULL, "iop_1"}}

Malformed(ep) == [EmptyReq(ep) EXCEPT !.parsed = FALSE]

\* the requests a client can send to build b
Requests(b) ==
  PaymentBodies(b, "payment-request") \cup {Malformed("payment-request")}
  \cup (IF b = "multi"
        THEN PaymentBodies(b, "authorize-payment") \cup TestTokenBodies
             \cup SdkTokenBodies
             \cup {Malformed("authorize-payment"),
                   Malformed("interoperability/test-tokens"),
                   Malformed("interoperability/sdk-tokens")}
        ELSE {})
  \cup (IF b = "creds" THEN ProviderRequests ELSE {})
  \cup IdentityBodies(b) \cup PresentationQueries(b)
  \cup {Malformed("identity/sdk-tokens")}
  \cup PaytrailRequests(b)

EmptyReply ==
  [kind |-> "http", status |-> 200, json |-> TRUE, error_message |-> NULL,
   validation_errors |-> FALSE, state |-> NULL, payment_request_id |-> "pr_2",
   ci_return_url |-> NULL, sc |-> FALSE, sc_payment_request_id |-> "pr_1",
   sc_payment_request_url |-> "https://x", expires_at |-> "2026-01-01T00:00:00Z",
   payment_result |-> NULL, ct_result |-> NULL,
   payment_result_reason |-> NULL, ct_result_reason |-> NULL,
   payment_transaction_id |-> "pt_1", payment_transaction_reference |-> "ptr_1",
   customer_token_id |-> "ct_1", customer_token_reference |-> "ctr_1",
   token |-> NULL, transactionId |-> NULL, stepUpUrl |-> NULL]

FailedReplies ==
  {[EmptyReply EXCEPT !.kind = "neterr", !.status = 0],
   [EmptyReply EXCEPT !.json = FALSE],
   [EmptyReply EXCEPT !.json = FALSE, !.status = 502]}
  \cup {[EmptyReply EXCEPT !.status = s, !.error_message = m, !.validation_errors = ve] :
          s \in {400, 500}, m \in {NULL, "vendor message"}, ve \in BOOLEAN}

PaymentRequestReplies ==
  FailedReplies
  \cup {[EmptyReply EXCEPT !.state = st, !.ci_return_url = u, !.sc = c] :
          st \in {NULL, "SUBMITTED", "COMPLETED"},
          u \in {NULL, "https://vendor/echo"}, c \in BOOLEAN}
  \cup {[EmptyReply EXCEPT !.status = 201, !.state = "SUBMITTED", !.sc = TRUE]}

Results == {NULL, "STEP_UP_REQUIRED", "APPROVED", "DECLINED", "PENDING"}

AuthorizeReplies ==
  FailedReplies
  \cup {[EmptyReply EXCEPT !.payment_result = pr, !.ct_result = ct, !.sc = TRUE,
                           !.payment_result_reason = IF pr = "DECLINED" THEN x ELSE NULL,
                           !.ct_result_reason = IF ct = "DECLINED" THEN x ELSE NULL] :
          pr \in Results, ct \in Results, x \in {NULL, "payment_declined"}}

TokenReplies ==
  FailedReplies
  \cup {[EmptyReply EXCEPT !.token = t] : t \in {NULL, "token_1"}}

PaytrailReplies ==
  {[EmptyReply EXCEPT !.kind = "neterr", !.status = 0],
   [EmptyReply EXCEPT !.json = FALSE],
   [EmptyReply EXCEPT !.json = FALSE, !.status = 502]}
  \cup {[EmptyReply EXCEPT !.status = s, !.transactionId = t, !.stepUpUrl = u] :
          s \in {200, 201, 302, 403, 404, 500}, t \in {NULL, "tx_1"}, u \in {NULL, "https://step"}}

\* the answers the vendor can give to the outbound call of request r
Replies(r) ==
  CASE r.ep = "payment-request" -> PaymentRequestReplies
    [] r.ep \in PaytrailEps -> PaytrailReplies
    [] r.ep = "authorize-payment" -> AuthorizeReplies
    [] r.ep \in {"merchants/payment-providers", "presentation"} ->
         FailedReplies \cup {EmptyReply}
    [] OTHER -> TokenReplies

----------------------------------------------------------------------------
(* The relay as a state machine: one call at a time                         *)

\* environment variables a build does not read are left unset
EnvOf(b) ==
  IF b = "multi" THEN EnvConfigs
  ELSE {e \in EnvConfigs : ~e.AP_CLIENT_ID /\ ~e.AP_API_KEY /\ ~e.PARTNER_ACCOUNT_ID}

MaxTasks == 3

\* state.js klarna = null
NoKlarna == [live |-> FALSE, clientId |-> NULL]

\* Token values as the page tells them apart: 0 is null.  Every token handed
\* to the page is a new value, and the page keeps a token nowhere but in the
\* variable it was stored in: a token is named after that variable (an
\* interoperability token also after who stored it: a test-token fetch, or the
\* SDK's "tokenupdate" event), and the token that takes its place starts with
\* a history of its own.
TokenIds == 1..3

FreshToken(slot) ==
  CASE slot = "sdkToken" -> 1
    [] slot = "interoperabilityToken" -> 2
    [] OTHER -> 3

NoRender ==
  [started |-> FALSE, resetTokens |-> FALSE, flow |-> "", hadCache |-> FALSE,
   log |-> <<>>, emptyAtFirstCall |-> FALSE]

\* the latest step stored no token and no SDK instance
NoStore == [stored |-> FALSE, preReset |-> FALSE]

\* buildPaymentRequestData has not been called
NoData == [built |-> FALSE]

\* the page once init() has loaded the configuration and called
\* renderPresentation(), which waits for the SDK module in ensureSDK
InitUI ==
  /\ advancedFlow = ""
  /\ countrySel = "SE"
  /\ currentAuthMode = "ACQUIRING_PARTNER"
  /\ klarna = NoKlarna
  /\ sdkToken = 0
  /\ interoperabilityToken = 0
  /\ tasks = <<[pc |-> "import", stale |-> FALSE, preReset |-> FALSE,
              clientId |-> NULL]>>
  /\ abandoned = {}
  /\ initCount = [t \in TokenIds |-> 0]
  /\ staleUses = {}
  /\ lastRender = NoRender
  /\ initsSinceReset = -1
  /\ lastStore = NoStore
  /\ selectedIntents = <<"PAY">>
  /\ paymentRequestData = NoData

MaxInstances == 2

MaxHandlers == 2

MaxProductTasks == 2

\* the product page is not open
ProductClosed ==
  /\ productLocale = NULL
  /\ currentSDKLocale = NULL
  /\ productKlarna = 0
  /\ sdkInstances = 0
  /\ completeHandlers = [k \in 1..MaxInstances |-> 0]
  /\ buttonInstance = 0
  /\ productTasks = <<>>
  /\ paymentPosts = 0

\* no signing call has been made
NoSigned == [signer |-> NULL]

PaytrailEnvs ==
  {[PAYTRAIL_MERCHANT_ID |-> NULL, PAYTRAIL_SECRET_KEY |-> NULL],
   [PAYTRAIL_MERCHANT_ID |-> "375917", PAYTRAIL_SECRET_KEY |-> "SAIPPUAKAUPPIAS"]}

SignerAtRest ==
  /\ paytrailEnv = [PAYTRAIL_MERCHANT_ID |-> "375917",
                    PAYTRAIL_SECRET_KEY |-> "SAIPPUAKAUPPIAS"]
  /\ clock = 0
  /\ uuidCount = 0
  /\ issued = <<>>
  /\ signedReq = NoSigned

InitRelay ==
  /\ SignerAtRest
  /\ InitUI
  /\ ProductClosed
  /\ build \in Builds
  /\ env \in EnvOf(build)
  /\ pc = "idle"
  /\ req = NoReq
  /\ sent = NoSent
  /\ vendorCalls = 0
  /\ klarnaResponse = NoAnswer
  /\ resp = NoResp
  /\ servedBefore = FALSE

\* Receive with a resolver that keeps the mode it resolved as the only
\* configured one: the credentials of the other mode are dropped from env
Receive_RemembersMode(r) ==
  /\ pc = "idle"
  /\ LET step == HandlePre(build, env, r) IN
       /\ req' = r
       /\ klarnaResponse' = NoAnswer
       /\ IF step.kind = "send"
          THEN /\ pc' = "sent"
               /\ sent' = step.out
               /\ vendorCalls' = 1
               /\ resp' = NoResp
               /\ env' = IF "authMode" \in DOMAIN step.out
                             /\ step.out.authMode = "ACQUIRING_PARTNER"
                          THEN [env EXCEPT !.SP_CLIENT_ID = FALSE, !.SP_API_KEY = FALSE]
                          ELSE [env EXCEPT !.AP_CLIENT_ID = FALSE, !.AP_API_KEY = FALSE]
          ELSE /\ pc' = "done"
               /\ sent' = NoSent
               /\ vendorCalls' = 0
               /\ resp' = step.resp
               /\ env' = env
  /\ UNCHANGED <<build, servedBefore, signerVars, uiVars>>

\* a request arrives and its handler runs up to the vendor call or to a response
Receive(r) ==
  /\ pc = "idle"
  /\ LET step == HandlePre(build, env, r) IN
       /\ req' = r
       /\ klarnaResponse' = NoAnswer
       /\ IF step.kind = "send"
          THEN /\ pc' = "sent"
               /\ sent' = step.out
               /\ vendorCalls' = 1
               /\ resp' = NoResp
          ELSE /\ pc' = "done"
               /\ sent' = NoSent
               /\ vendorCalls' = 0
               /\ resp' = step.resp
  /\ UNCHANGED <<build, env, servedBefore, signerVars, uiVars>>

\* the vendor call settles and the handler runs to its response
VendorAnswer(v) ==
  /\ pc = "sent"
  /\ LET step == HandlePost(build, req, sent, v) IN
       /\ pc' = step.next
       /\ klarnaResponse' = v
       /\ vendorCalls' = vendorCalls + step.resend
       /\ resp' = step.resp
  /\ UNCHANGED <<build, env, req, sent, servedBefore, signerVars, uiVars>>

\* the response has been delivered; the relay keeps nothing of the call
Finish ==
  /\ pc = "done"
  /\ pc' = "idle"
  /\ req' = NoReq
  /\ sent' = NoSent
  /\ vendorCalls' = 0
  /\ klarnaResponse' = NoAnswer
  /\ resp' = NoResp
  /\ servedBefore' = TRUE
  /\ UNCHANGED <<build, env, signerVars, uiVars>>

NextRelay ==
  \/ (pc = "idle" /\ \E r \in Requests(build) : Receive(r))
  \/ (pc = "sent" /\ \E v \in Replies(req) : VendorAnswer(v))
  \/ Finish

Spec == InitRelay /\ [][NextRelay]_vars


\* Payment calls whose supplementary purchase data ranges over PurchaseInputs,
\* received by a relay that has the credentials of a sub-partner
PurchaseRequests(b) ==
  {[EmptyReq(ep) EXCEPT !.hasPRD = TRUE, !.paymentOptionId = "po_top",
                        !.klarnaApiKey = IF b = "creds" THEN "apikey" ELSE NULL,
                        !.intents = <<"PAY">>,
                        !.interoperabilityToken =
                          IF ep = "authorize-payment" THEN "iop_1" ELSE NULL,
                        !.supplementaryPurchaseData = d] :
      ep \in IF b = "multi" THEN {"payment-request", "authorize-payment"}
             ELSE {"payment-request"},
      d \in PurchaseInputs}

InitPurchase ==
  /\ InitRelay
  /\ hasSubPartnerConfig(env)
  /\ env.KLARNA_CUSTOMER_TOKENS = {}

NextPurchase ==
  \/ (pc = "idle" /\ \E r \in PurchaseRequests(build) : Receive(r))
  \/ (pc = "sent" /\ \E v \in Replies(req) : VendorAnswer(v))
  \/ Finish

SpecPurchase == InitPurchase /\ [][NextPurchase]_vars

----------------------------------------------------------------------------
(* Claims about the relay                                                   *)

isPaymentCall == req.ep \in {"payment-request", "authorize-payment"}

isInteropCall ==
  req.ep \in {"interoperability/test-tokens", "interoperability/sdk-tokens"}

handled == pc \in {"sent", "done"}

\* at least one credential set is usable by the deployed build
CredentialsConfigured ==
  \/ build = "multi" /\ (hasAcquiringPartnerConfig(env) \/ hasSubPartnerConfig(env))
  \/ build = "sp" /\ hasSubPartnerConfig(env)
  \/ build = "creds"

noPaymentOptionId == req.paymentOptionId = NULL /\ req.prdPaymentOptionId = NULL

\* C1 as stated: every payment-request / authorize-payment call whose body
\* lacks paymentRequestData is answered HTTP 400 and makes no vendor call.
C1_AlwaysBadRequest ==
  (handled /\ isPaymentCall /\ req.parsed /\ ~req.hasPRD)
    => (pc = "done" /\ resp.http = 400 /\ vendorCalls = 0)

\* C1 amended: a payment-request / authorize-payment call whose body lacks
\* paymentRequestData never reaches the vendor and is answered ERROR, with
\* HTTP 400 when a credential set is configured and HTTP 500 when none is.
C1_MissingDataNeverSent ==
  (handled /\ isPaymentCall /\ req.parsed /\ ~req.hasPRD)
    => /\ pc = "done"
       /\ vendorCalls = 0
       /\ sent = NoSent
       /\ resp.status = "ERROR"
       /\ resp.http = IF CredentialsConfigured THEN 400 ELSE 500

C1_Witness ==
  /\ pc = "done" /\ req.ep = "authorize-payment" /\ req.parsed /\ ~req.hasPRD
  /\ req.paymentOptionId # NULL
  /\ resp.http = 400

\* C2 as stated: an interoperability step requested with authMode SUB_PARTNER
\* is rejected with HTTP 400 and no vendor call is made.
C2_SubPartnerAlwaysRejected ==
  (handled /\ isInteropCall /\ req.parsed /\ req.authMode # NULL
     /\ toUpperCase(req.authMode) = "SUB_PARTNER")
    => (pc = "done" /\ resp.http = 400 /\ vendorCalls = 0)

\* C2 amended: an interoperability step requested with authMode SUB_PARTNER on
\* a relay whose Sub Partner credentials are configured is rejected with HTTP
\* 400 ("only available for Acquiring Partners") and no vendor call is made.
C2_ConfiguredSubPartnerRejected ==
  (handled /\ isInteropCall /\ req.parsed /\ req.authMode # NULL
     /\ toUpperCase(req.authMode) = "SUB_PARTNER" /\ hasSubPartnerConfig(env))
    => /\ pc = "done"
       /\ vendorCalls = 0
       /\ resp.http = 400
       /\ resp.status = "ERROR"
       /\ resp.body.message
            = "Interoperability flows are only available for Acquiring Partners"

C2_Witness ==
  /\ pc = "done" /\ req.ep = "interoperability/sdk-tokens"
  /\ req.authMode = "SUB_PARTNER" /\ req.interoperabilityToken # NULL
  /\ hasSubPartnerConfig(env) /\ hasAcquiringPartnerConfig(env)
  /\ resp.http = 400

Outcomes ==
  {"CREATED", "COMPLETED", "STEP_UP_REQUIRED", "APPROVED", "DECLINED", "ERROR"}

MetaFields == {"_request", "_response"}

\* the payload fields of each outcome variant
VariantShapes(status) ==
  CASE status = "CREATED" -> {{"paymentRequestId", "paymentRequestUrl", "expiresAt"}}
    [] status = "COMPLETED" -> {{"paymentRequestId", "successUrl", "expiresAt"}}
    [] status = "STEP_UP_REQUIRED" ->
         {{"paymentRequestId", "paymentRequestUrl", "expiresAt"}}
    [] status = "APPROVED" ->
         {{"paymentTransactionId", "paymentTransactionReference", "successUrl"},
          {"customerTokenId", "customerTokenReference", "successUrl"}}
    [] status = "DECLINED" -> {{"message", "reason"}}
    [] status = "ERROR" ->
         {{"message"}, {"message", "details"},
          {"message", "details", "validation_errors"}}
    [] OTHER -> {}

\* C4: every payment-request / authorize-payment call that has returned
\* carries exactly one outcome tag out of the six, with the payload of that
\* variant and of no other.
C4_ExactlyOneOutcome ==
  (pc = "done" /\ isPaymentCall)
    => /\ resp.status \in Outcomes
       /\ (DOMAIN resp.body) \ MetaFields \in VariantShapes(resp.status)

C4_Witness ==
  /\ pc = "done" /\ req.ep = "authorize-payment" /\ vendorCalls = 1
  /\ resp.status = "DECLINED"

\* C5: a relay call sends its vendor request at most once: once the request is
\* out, the next step of the call is its response, and no step adds a vendor
\* request.
C5_SingleVendorCall ==
  /\ [](vendorCalls <= 1)
  /\ [][pc = "sent" => (pc' = "done" /\ vendorCalls' = vendorCalls)]_vars

C5_Witness ==
  /\ pc = "done" /\ vendorCalls = 1 /\ resp.http = 500
  /\ req.ep \in {"payment-request", "merchants/payment-providers"}

\* the call in progress has reached its credential resolver
resolvesCredentials ==
  /\ handled
  /\ req.parsed
  /\ CASE req.ep = "payment-request" -> build # "creds"
        [] req.ep = "presentation" -> req.hasCurrency
        [] req.ep \in PaytrailEps \cup {"merchants/payment-providers"} -> FALSE
        [] OTHER -> TRUE

requestedMode == IF req.authMode = NULL THEN NULL ELSE toUpperCase(req.authMode)

modeConfigured(m) ==
  IF m = "ACQUIRING_PARTNER" THEN hasAcquiringPartnerConfig(env)
  ELSE m = "SUB_PARTNER" /\ hasSubPartnerConfig(env)

credentialSetOf(m) ==
  IF m = "ACQUIRING_PARTNER"
  THEN [ok |-> TRUE, clientId |-> "AP_CLIENT_ID", apiKey |-> "AP_API_KEY",
        partnerAccountId |-> "PARTNER_ACCOUNT_ID", isAcquiringPartner |-> TRUE]
  ELSE [ok |-> TRUE, clientId |-> "SP_CLIENT_ID", apiKey |-> "SP_API_KEY",
        partnerAccountId |-> NULL, isAcquiringPartner |-> FALSE]

\* the credential set the resolver gave the call in progress
resolved == resolveFor(build, env, req.authMode)

\* C13: when the requested mode is SUB_PARTNER or ACQUIRING_PARTNER and that
\* mode has a complete credential set, the resolver returns that mode's set,
\* and a vendor call made by the request is authenticated with it.
C13_RequestedModeHonoured ==
  (resolvesCredentials /\ build = "multi" /\ modeConfigured(requestedMode))
    => /\ resolved = credentialSetOf(requestedMode)
       /\ pc = "sent" => /\ sent.authMode = requestedMode
                         /\ sent.authorization = credentialSetOf(requestedMode).apiKey

\* Sub Partner is requested where both modes are configured, and is used
C13_Witness ==
  /\ pc = "sent" /\ build = "multi" /\ req.authMode = "SUB_PARTNER"
  /\ hasSubPartnerConfig(env) /\ hasAcquiringPartnerConfig(env)
  /\ sent.authorization = "SP_API_KEY"

\* the default mode as the claim words it
preferredMode ==
  IF hasAcquiringPartnerConfig(env) THEN "ACQUIRING_PARTNER" ELSE "SUB_PARTNER"

\* C14: when the requested mode is absent, unrecognised or names a mode whose
\* credential set is incomplete, and some mode is configured, the resolver
\* returns the set of the default mode: Acquiring Partner when both modes are
\* configured, otherwise the one mode that is configured.
C14_FallsBackToDefault ==
  (resolvesCredentials /\ ~modeConfigured(requestedMode)
     /\ (hasAcquiringPartnerConfig(env) \/ hasSubPartnerConfig(env)))
    => /\ resolved = credentialSetOf(preferredMode)
       /\ pc = "sent" => /\ sent.authMode = preferredMode
                         /\ sent.authorization = credentialSetOf(preferredMode).apiKey

\* Sub Partner is requested where only Acquiring Partner is configured
C14_Witness ==
  /\ pc = "sent" /\ build = "multi" /\ req.authMode = "SUB_PARTNER"
  /\ ~hasSubPartnerConfig(env) /\ hasAcquiringPartnerConfig(env)
  /\ sent.authMode = "ACQUIRING_PARTNER"

\* C15: when no mode has a complete credential set the resolver fails, and
\* every call that reaches it is answered HTTP 500 without a vendor call.
C15_NoCredentialsIs500 ==
  (resolvesCredentials /\ ~hasAcquiringPartnerConfig(env) /\ ~hasSubPartnerConfig(env))
    => /\ ~resolved.ok
       /\ pc = "done"
       /\ vendorCalls = 0
       /\ sent = NoSent
       /\ resp.http = 500
       /\ resp.status = "ERROR"
       /\ resp.body.message
            = "Server configuration error: No authentication configured"

\* Acquiring Partner lacks only its account id, and Sub Partner its API key
C15_Witness ==
  /\ pc = "done" /\ build = "multi" /\ req.ep = "authorize-payment" /\ req.hasPRD
  /\ env.AP_CLIENT_ID /\ env.AP_API_KEY /\ ~env.PARTNER_ACCOUNT_ID
  /\ env.SP_CLIENT_ID /\ ~env.SP_API_KEY
  /\ resp.http = 500

\* the outcome of the call in progress, as the handlers compute it from the
\* configuration and the request alone
outcomeOfThisCall ==
  LET pre == HandlePre(build, env, req) IN
    CASE pc = "idle" ->
           /\ req = NoReq /\ sent = NoSent /\ klarnaResponse = NoAnswer
           /\ resp = NoResp /\ vendorCalls = 0
      [] pc = "sent" ->
           pre.kind = "send" /\ sent = pre.out /\ resp = NoResp
      [] pc = "done" /\ vendorCalls = 0 ->
           /\ pre.kind = "respond" /\ resp = pre.resp
           /\ sent = NoSent /\ klarnaResponse = NoAnswer
      [] OTHER ->
           /\ pre.kind = "send" /\ sent = pre.out
           /\ klarnaResponse \in Replies(req)
           /\ resp = HandlePost(build, req, sent, klarnaResponse).resp

\* C16: no resolver invocation and no relay call modifies process-wide
\* state: the configuration (and the deployed build) a call reads is never
\* changed by any step of any call, an idle relay keeps nothing of the calls
\* it answered, and what a call sends and answers is what its handler
\* computes from the configuration and the request (and the vendor's reply),
\* whether or not calls were handled before it.
C16_NoProcessWideStateModified ==
  /\ [][env' = env /\ build' = build]_vars
  /\ [](outcomeOfThisCall)

C16_Witness ==
  /\ servedBefore /\ pc = "done" /\ vendorCalls = 1
  /\ req.ep = "payment-request" /\ build = "multi" /\ req.authMode = "SUB_PARTNER"
  /\ hasAcquiringPartnerConfig(env) /\ hasSubPartnerConfig(env)
  /\ resp.http = 200

\* the vendor answered the call with an HTTP status outside 200..299
vendorFailed ==
  pc = "done" /\ klarnaResponse.kind = "http" /\ ~ok(klarnaResponse.status)

\* C17: when the vendor answers a payment-request or authorize-payment call
\* with a non-2xx status, the relay returns outcome ERROR with the vendor's
\* own HTTP status code, and with the vendor's error_message as the message
\* whenever the vendor supplied one.
C17_VendorErrorPassedThrough ==
  (vendorFailed /\ isPaymentCall)
    => /\ resp.status = "ERROR"
       /\ resp.http = klarnaResponse.status
       /\ (klarnaResponse.error_message # NULL
             => resp.body.message = klarnaResponse.error_message)

\* the vendor answered the call with a 2xx status and a JSON body
vendorSucceeded ==
  /\ pc = "done" /\ klarnaResponse.kind = "http"
  /\ klarnaResponse.json /\ ok(klarnaResponse.status)

vendorCompleted ==
  vendorSucceeded /\ req.ep = "payment-request" /\ klarnaResponse.state = "COMPLETED"

\* C18 as stated: when the vendor answers a payment request with a 2xx
\* status and state COMPLETED, the relay returns COMPLETED with the vendor's
\* payment_request_id, and successUrl equal to the return URL the vendor
\* echoed, or to the caller-supplied returnUrl when the vendor echoed none.
C18_SuccessUrlFromVendorOrCaller ==
  vendorCompleted
    => /\ resp.status = "COMPLETED"
       /\ resp.body.paymentRequestId = klarnaResponse.payment_request_id
       /\ resp.body.successUrl = IF klarnaResponse.ci_return_url # NULL
                                 THEN klarnaResponse.ci_return_url
                                 ELSE req.returnUrl

\* C18: when the vendor answers a payment request with a 2xx status and
\* state COMPLETED, the relay returns COMPLETED with the vendor's
\* payment_request_id, and successUrl equal to the return URL the vendor
\* echoed, or to the caller-supplied returnUrl when the vendor echoed none,
\* or to "/payment-complete" when the caller supplied none either.
C18_SuccessUrlWithDefault ==
  vendorCompleted
    => /\ resp.status = "COMPLETED" /\ resp.http = 200
       /\ resp.body.paymentRequestId = klarnaResponse.payment_request_id
       /\ resp.body.successUrl =
            CASE klarnaResponse.ci_return_url # NULL -> klarnaResponse.ci_return_url
              [] req.returnUrl # NULL -> req.returnUrl
              [] OTHER -> "/payment-complete"

C18_Witness ==
  /\ vendorCompleted /\ klarnaResponse.ci_return_url = NULL /\ req.returnUrl = NULL
  /\ resp.status = "COMPLETED" /\ resp.body.successUrl = "/payment-complete"

vendorNotCompleted ==
  vendorSucceeded /\ req.ep = "payment-request" /\ klarnaResponse.state # "COMPLETED"

\* C19: when the vendor answers a payment request with a 2xx status and any
\* state other than COMPLETED (a missing state included), the relay returns
\* CREATED with paymentRequestId and paymentRequestUrl equal to the
\* payment_request_id and payment_request_url of the response's
\* state_context.customer_interaction object; both are undefined when the
\* response has no such object.
C19_CreatedFromCustomerInteraction ==
  vendorNotCompleted
    => /\ resp.status = "CREATED" /\ resp.http = 200
       /\ resp.body.paymentRequestId =
            (IF klarnaResponse.sc THEN klarnaResponse.sc_payment_request_id ELSE NULL)
       /\ resp.body.paymentRequestUrl =
            (IF klarnaResponse.sc THEN klarnaResponse.sc_payment_request_url ELSE NULL)

C19_Witness ==
  /\ vendorNotCompleted /\ klarnaResponse.status = 201
  /\ klarnaResponse.state = "SUBMITTED" /\ klarnaResponse.sc
  /\ resp.status = "CREATED" /\ resp.body.paymentRequestId = "pr_1"
  /\ resp.body.paymentRequestUrl = "https://x"

vendorAuthorized == vendorSucceeded /\ req.ep = "authorize-payment"

\* the result field the claim names for the request, and the other one
decisiveResult ==
  IF isOnlyAddToWallet(req) THEN klarnaResponse.ct_result
  ELSE klarnaResponse.payment_result

withOtherResult(o) ==
  IF isOnlyAddToWallet(req) THEN [klarnaResponse EXCEPT !.payment_result = o]
  ELSE [klarnaResponse EXCEPT !.ct_result = o]

\* C20: in an authorize-payment call the outcome is decided by
\* customer_token_response.result when the request is wallet-linking-only and
\* by payment_transaction_response.result in every other case: the outcome is
\* that result when it is STEP_UP_REQUIRED, APPROVED or DECLINED and ERROR
\* otherwise, and the same answer with any other value in the other result
\* field gives the same response.
C20_OutcomeFromOneResultField ==
  vendorAuthorized
    => /\ resp.status = (IF decisiveResult \in {"STEP_UP_REQUIRED", "APPROVED", "DECLINED"}
                         THEN decisiveResult ELSE "ERROR")
       /\ resp.http = (IF resp.status = "ERROR" THEN 500 ELSE 200)
       /\ \A o \in Results :
            AuthorizePaymentPost(req, sent, withOtherResult(o)).resp = resp

C20_Witness ==
  /\ vendorAuthorized /\ isOnlyAddToWallet(req)
  /\ klarnaResponse.ct_result = "APPROVED" /\ klarnaResponse.payment_result = "DECLINED"
  /\ resp.status = "APPROVED" /\ resp.body.customerTokenId = "ct_1"

\* C21: for a 2xx vendor response to authorize-payment, the selected result
\* value STEP_UP_REQUIRED, APPROVED or DECLINED maps to the outcome of the
\* same name (HTTP 200), and every other value, a missing result included,
\* maps to ERROR (HTTP 500, "Unexpected result").
C21_ResultMapsToOutcome ==
  vendorAuthorized
    => CASE decisiveResult = "STEP_UP_REQUIRED" ->
              resp.status = "STEP_UP_REQUIRED" /\ resp.http = 200
         [] decisiveResult = "APPROVED" -> resp.status = "APPROVED" /\ resp.http = 200
         [] decisiveResult = "DECLINED" -> resp.status = "DECLINED" /\ resp.http = 200
         [] OTHER -> /\ resp.status = "ERROR" /\ resp.http = 500
                     /\ resp.body.message = "Unexpected result"

C21_Witness ==
  /\ vendorAuthorized /\ ~isOnlyAddToWallet(req)
  /\ klarnaResponse.payment_result = "PENDING" /\ klarnaResponse.ct_result = "APPROVED"
  /\ resp.status = "ERROR" /\ resp.http = 500

vendorDeclined == vendorAuthorized /\ decisiveResult = "DECLINED"

\* the decline reason the vendor sent with the result that decided the call
vendorDeclineReason ==
  IF isOnlyAddToWallet(req) THEN klarnaResponse.ct_result_reason
  ELSE klarnaResponse.payment_result_reason

\* C22: a vendor-reported decline is returned as a normal DECLINED outcome
\* with HTTP 200, never as an error status, and the outcome carries the
\* vendor's decline reason unchanged (as reason, and as message when the
\* vendor gave one).
C22_DeclineIsNormalOutcome ==
  vendorDeclined
    => /\ resp.status = "DECLINED" /\ resp.http = 200
       /\ resp.body.reason = vendorDeclineReason
       /\ (vendorDeclineReason # NULL => resp.body.message = vendorDeclineReason)

C22_Witness ==
  /\ vendorDeclined /\ isOnlyAddToWallet(req)
  /\ klarnaResponse.ct_result_reason = "payment_declined"
  /\ klarnaResponse.payment_result_reason = NULL
  /\ resp.http = 200 /\ resp.body.reason = "payment_declined"

\* C23: in Acquiring-Partner mode with a wallet-only intent, a vendor response
\* whose customer_token_response has result APPROVED yields outcome APPROVED
\* carrying customerTokenId equal to the vendor's
\* customer_token.customer_token_id.
C23_WalletApprovalCarriesTokenId ==
  (vendorAuthorized /\ sent.authMode = "ACQUIRING_PARTNER"
     /\ req.intents = <<"ADD_TO_WALLET">> /\ klarnaResponse.ct_result = "APPROVED")
    => /\ resp.status = "APPROVED" /\ resp.http = 200
       /\ "customerTokenId" \in DOMAIN resp.body
       /\ resp.body.customerTokenId = klarnaResponse.customer_token_id

C23_Witness ==
  /\ vendorAuthorized /\ sent.authMode = "ACQUIRING_PARTNER"
  /\ req.intents = <<"ADD_TO_WALLET">>
  /\ klarnaResponse.ct_result = "APPROVED" /\ klarnaResponse.payment_result = NULL
  /\ resp.status = "APPROVED" /\ resp.body.customerTokenId = "ct_1"
  /\ "paymentTransactionId" \notin DOMAIN resp.body

\* the call has put its payment payload on the wire
paymentSent == handled /\ vendorCalls >= 1 /\ isPaymentCall

\* C24: for every payment-request or authorize-payment request whose intents
\* are exactly ADD_TO_WALLET, the payload sent to the vendor contains no
\* amount: a payment request has no amount field, an authorization has no
\* request_payment_transaction object (the only place it puts an amount).
C24_WalletOnlyPayloadHasNoAmount ==
  (paymentSent /\ req.intents = <<"ADD_TO_WALLET">>)
    => /\ "amount" \notin sent.keys
       /\ "request_payment_transaction" \notin sent.keys

C24_Witness ==
  /\ paymentSent /\ req.ep = "payment-request" /\ req.intents = <<"ADD_TO_WALLET">>
  /\ req.supplementaryPurchaseData.present
  /\ sent.keys = {"currency", "payment_request_reference", "payment_option_id",
                  "customer_interaction_config", "supplementary_purchase_data",
                  "request_customer_token"}

paytrailCall == handled /\ req.ep \in PaytrailEps

\* the request names no merchantId or no secretKey (blank counts as missing)
credentialsMissing ==
  req.paytrailMerchantId \in {NULL, "  "} \/ req.paytrailSecretKey \in {NULL, "  "}

\* C25 as stated: each of the second-vendor relay endpoints takes merchantId
\* and secretKey from the request itself and, when either is missing, rejects
\* the request without sending anything to the second vendor.
C25_AlwaysFromRequest ==
  paytrailCall
    => /\ credentialsMissing => (pc = "done" /\ vendorCalls = 0)
       /\ vendorCalls >= 1 => sent.authorization = req.paytrailMerchantId

\* C25: in the build that takes Paytrail credentials per request, each of the
\* three endpoints signs with the merchantId of the request and, when
\* merchantId or secretKey is missing or blank, answers HTTP 400 (500 for an
\* unreadable body) without sending anything to the second vendor; the other
\* builds sign with PAYTRAIL_MERCHANT_ID of the process whatever the request
\* holds.
C25_FromRequestInCredsBuild ==
  paytrailCall
    => IF build = "creds"
       THEN /\ credentialsMissing
                 => /\ pc = "done" /\ vendorCalls = 0 /\ sent = NoSent
                    /\ resp.http = (IF req.parsed THEN 400 ELSE 500)
            /\ vendorCalls >= 1 => sent.authorization = req.paytrailMerchantId
       ELSE vendorCalls >= 1 => sent.authorization = paytrailEnv.PAYTRAIL_MERCHANT_ID

C25_Witness ==
  /\ paytrailCall /\ build = "creds" /\ req.ep = "payments/klarna/authorization-hold"
  /\ req.paytrailMerchantId = "375917" /\ req.paytrailSecretKey = NULL
  /\ req.hasPayment /\ missingFields(req) = <<>>
  /\ pc = "done" /\ resp.http = 400 /\ vendorCalls = 0

----------------------------------------------------------------------------
(* The Paytrail signer                                                      *)
(* A string whose characters matter (a body, a signature string) is a       *)
(* sequence of one-character strings and of opaque header names and values. *)

MaxBodyLen == 1
MaxSigns == 2
MaxClock == 1

CR == "\r"
LF == "\n"

BodyChars == {"a", CR, LF}

Bodies == UNION {[1..n -> BodyChars] : n \in 0..MaxBodyLen}

\* String.prototype.replace(/\r/g, '')
stripCarriageReturns(str) == SelectSeq(str, LAMBDA ch : ch # CR)

\* JSON.stringify of a string value: control characters are escaped
RECURSIVE jsonEscape(_)
jsonEscape(str) ==
  IF str = <<>> THEN <<>>
  ELSE (CASE Head(str) = CR -> <<"\\", "r">>
          [] Head(str) = LF -> <<"\\", "n">>
          [] OTHER -> <<Head(str)>>)
       \o jsonEscape(Tail(str))

JSONstringify(value) == <<"\"">> \o jsonEscape(value) \o <<"\"">>

\* new Date().toISOString() at wall-clock time t (millisecond resolution)
toISOString(t) == "2026-01-17T09:26:35." \o ToString(t) \o "Z"

\* the UUID fixed by mutants that stop drawing one per call
randomUUID_Cached(n) == "uuid-0"

\* the n-th value returned by crypto.randomUUID()
randomUUID(n) == "uuid-" \o ToString(n)

\* the header names the signer can meet, in the order of Array.prototype.sort
HeaderOrder ==
  <<"checkout-account", "checkout-algorithm", "checkout-method",
    "checkout-nonce", "checkout-timestamp", "checkout-transaction-id",
    "platform-name">>

NoHeaders == [k \in {} |-> NULL]

\* Object.assign(target, source)
ObjectAssign(target, source) ==
  [k \in DOMAIN target \cup DOMAIN source |->
     IF k \in DOMAIN source THEN source[k] ELSE target[k]]

\* Object.keys(h).sort()
sortedKeys(h) == SelectSeq(HeaderOrder, LAMBDA k : k \in DOMAIN h)

\* keys.map((key) => `${key}:${h[key]}`).join("\n")
RECURSIVE joinHeaderLines(_, _)
joinHeaderLines(h, keys) ==
  IF keys = <<>> THEN <<>>
  ELSE <<Head(keys), ":", h[Head(keys)]>>
       \o (IF Tail(keys) = <<>> THEN <<>> ELSE <<LF>>)
       \o joinHeaderLines(h, Tail(keys))

\* a signature string whose header block runs straight into the body
signatureString_NoFinalLineFeed(signatureHeaders, body) ==
  joinHeaderLines(signatureHeaders, sortedKeys(signatureHeaders)) \o body

signatureString(signatureHeaders, body) ==
  joinHeaderLines(signatureHeaders, sortedKeys(signatureHeaders)) \o <<LF>> \o body

\* crypto.createHmac("sha256", key).update(msg).digest("hex"), as an ideal
\* keyed hash: equal digests exactly for equal key and message
createHmac(key, msg) == [algorithm |-> "sha256", key |-> key, msg |-> msg]

\* a signer that also signs the request path
createPaytrailSignatureWithCreds_SignsUri(method, uri, headers, body, merchantId, secretKey, timestamp, nonce) ==
  LET signatureHeaders ==
        [k \in {"checkout-account", "checkout-algorithm", "checkout-method",
                "checkout-nonce", "checkout-timestamp"} |->
           CASE k = "checkout-account" -> merchantId
             [] k = "checkout-algorithm" -> "sha256"
             [] k = "checkout-method" -> method
             [] k = "checkout-nonce" -> nonce
             [] OTHER -> timestamp]
  IN [headers |-> signatureHeaders,
      signature |-> createHmac(secretKey,
                               <<uri, LF>> \o signatureString(signatureHeaders, body))]

createPaytrailSignatureWithCreds(method, uri, headers, body, merchantId, secretKey, timestamp, nonce) ==
  LET signatureHeaders ==
        ObjectAssign([k \in {"checkout-account", "checkout-algorithm",
                             "checkout-method", "checkout-nonce",
                             "checkout-timestamp"} |->
                        CASE k = "checkout-account" -> merchantId
                          [] k = "checkout-algorithm" -> "sha256"
                          [] k = "checkout-method" -> method
                          [] k = "checkout-nonce" -> nonce
                          [] OTHER -> timestamp],
                     headers)
  IN [headers |-> signatureHeaders,
      signature |-> createHmac(secretKey, signatureString(signatureHeaders, body))]

\* PAYTRAIL_MERCHANT_ID || "" and PAYTRAIL_SECRET_KEY || ""
orEmpty(v) == IF v = NULL THEN "" ELSE v

createPaytrailSignature(method, uri, headers, body, penv, timestamp, nonce) ==
  createPaytrailSignatureWithCreds(method, uri, headers, body,
                                   orEmpty(penv.PAYTRAIL_MERCHANT_ID),
                                   orEmpty(penv.PAYTRAIL_SECRET_KEY),
                                   timestamp, nonce)

PostmanAccount == "1100830"
PostmanSecret == "49940e14fa2e814f"

\* the Postman pre-request script: the raw body loses its carriage returns
\* before it is signed
postmanPreRequest(raw, timestamp, nonce) ==
  LET bodyString == stripCarriageReturns(raw)
      signatureHeaders ==
        [k \in {"checkout-account", "checkout-algorithm", "checkout-method",
                "checkout-nonce", "checkout-timestamp"} |->
           CASE k = "checkout-account" -> PostmanAccount
             [] k = "checkout-algorithm" -> "sha256"
             [] k = "checkout-method" -> "POST"
             [] k = "checkout-nonce" -> nonce
             [] OTHER -> timestamp]
  IN [headers |-> signatureHeaders,
      signature |-> createHmac(PostmanSecret,
                               signatureString(signatureHeaders, bodyString))]

Methods == {"GET", "POST"}

MerchantIds == {"375917"}

SecretKeys == {"SAIPPUAKAUPPIAS", "MONISAIPPUAKAUPPIAS"}

RelayAtRest ==
  /\ build = "creds"
  /\ env \in {e \in EnvOf("creds") :
                 ~e.SP_CLIENT_ID /\ ~e.SP_API_KEY /\ e.KLARNA_CUSTOMER_TOKENS = {}}
  /\ pc = "idle"
  /\ req = NoReq
  /\ sent = NoSent
  /\ vendorCalls = 0
  /\ klarnaResponse = NoAnswer
  /\ resp = NoResp
  /\ servedBefore = FALSE

InitSigner ==
  /\ RelayAtRest
  /\ InitUI
  /\ ProductClosed
  /\ paytrailEnv \in PaytrailEnvs
  /\ clock = 0
  /\ uuidCount = 0
  /\ issued = <<>>
  /\ signedReq = NoSigned

\* the bookkeeping common to every signing call: one UUID drawn, the clock read
Signed(signer, method, body, merchantId, secretKey, result) ==
  /\ uuidCount' = uuidCount + 1
  /\ issued' = Append(issued, [nonce |-> result.headers["checkout-nonce"],
                               timestamp |-> result.headers["checkout-timestamp"]])
  /\ signedReq' = [signer |-> signer, method |-> method, body |-> body,
                   merchantId |-> merchantId, secretKey |-> secretKey,
                   at |-> clock,
                   headers |-> result.headers, signature |-> result.signature]
  /\ UNCHANGED <<relayVars, uiVars, paytrailEnv, clock>>

\* time passes
Tick ==
  /\ clock < MaxClock
  /\ clock' = clock + 1
  /\ UNCHANGED <<relayVars, uiVars, paytrailEnv, uuidCount, issued, signedReq>>

\* createPaytrailSignature(method, uri, {}, body)
CallCreatePaytrailSignature(method, body) ==
  /\ Len(issued) < MaxSigns
  /\ Signed("createPaytrailSignature", method, body,
            orEmpty(paytrailEnv.PAYTRAIL_MERCHANT_ID),
            orEmpty(paytrailEnv.PAYTRAIL_SECRET_KEY),
            createPaytrailSignature(method, "/payments", NoHeaders, body, paytrailEnv,
                                    toISOString(clock), randomUUID(uuidCount + 1)))

\* createPaytrailSignatureWithCreds(method, uri, {}, body, merchantId, secretKey)
CallCreatePaytrailSignatureWithCreds(method, body, merchantId, secretKey) ==
  /\ Len(issued) < MaxSigns
  /\ Signed("createPaytrailSignatureWithCreds", method, body, merchantId, secretKey,
            createPaytrailSignatureWithCreds(method, "/payments", NoHeaders, body,
                                             merchantId, secretKey,
                                             toISOString(clock),
                                             randomUUID(uuidCount + 1)))

\* makePaytrailRequestWithCreds(method, endpoint, payload, merchantId, secretKey)
\* up to its fetch: the body signed is JSON.stringify(payload), or "" for none
makePaytrailRequestWithCreds(method, payload, merchantId, secretKey) ==
  /\ Len(issued) < MaxSigns
  /\ LET bodyString == IF payload = <<>> THEN <<>> ELSE JSONstringify(payload) IN
     Signed("makePaytrailRequestWithCreds", method, bodyString, merchantId, secretKey,
            createPaytrailSignatureWithCreds(method, "/payments", NoHeaders, bodyString,
                                             merchantId, secretKey,
                                             toISOString(clock),
                                             randomUUID(uuidCount + 1)))

\* one run of the Postman pre-request script on the raw request body
RunPostmanScript(raw) ==
  /\ Len(issued) < MaxSigns
  /\ Signed("postman", "POST", raw, PostmanAccount, PostmanSecret,
            postmanPreRequest(raw, toISOString(clock), randomUUID(uuidCount + 1)))

NextSigner ==
  \/ Tick
  \/ \E method \in Methods, body \in Bodies : CallCreatePaytrailSignature(method, body)
  \/ \E method \in Methods, body \in Bodies, m \in MerchantIds, k \in SecretKeys :
       CallCreatePaytrailSignatureWithCreds(method, body, m, k)
  \/ \E method \in Methods, payload \in Bodies, m \in MerchantIds, k \in SecretKeys :
       makePaytrailRequestWithCreds(method, payload, m, k)
  \/ \E raw \in Bodies : RunPostmanScript(raw)

SpecSigner == InitSigner /\ [][NextSigner]_vars

----------------------------------------------------------------------------
(* Claims about the signer                                                  *)

\* C9 as stated: no two signing calls share their checkout-nonce and no two
\* signing calls share their checkout-timestamp.
C9_NonceAndTimestampNeverReused ==
  \A i, j \in 1..Len(issued) :
    i # j => /\ issued[i].nonce # issued[j].nonce
             /\ issued[i].timestamp # issued[j].timestamp

\* C9 amended: every signing call draws its own nonce and reads the clock
\* itself: no two calls share their checkout-nonce (hence none shares the
\* pair), and the checkout-timestamp of a call is the wall clock at that call.
C9_NonceNeverReused ==
  /\ \A i, j \in 1..Len(issued) : i # j => issued[i].nonce # issued[j].nonce
  /\ \A i, j \in 1..Len(issued) : i # j => issued[i] # issued[j]
  /\ signedReq # NoSigned =>
       /\ signedReq.headers["checkout-timestamp"] = toISOString(signedReq.at)
       /\ issued[Len(issued)].nonce = signedReq.headers["checkout-nonce"]

\* two calls within one millisecond
C9_Witness ==
  /\ Len(issued) = 2
  /\ issued[1].timestamp = issued[2].timestamp
  /\ issued[1].nonce # issued[2].nonce

\* the signature of the latest call, recomputed for a given body
signatureFor(body) ==
  createHmac(signedReq.secretKey, signatureString(signedReq.headers, body))

relaySigners ==
  {"createPaytrailSignature", "createPaytrailSignatureWithCreds",
   "makePaytrailRequestWithCreds"}

\* C11: the string a relay signer signs is the five headers checkout-account,
\* checkout-algorithm (sha256), checkout-method, checkout-nonce and
\* checkout-timestamp, in alphabetical order, each as key:value, separated by
\* line feeds, then one line feed, then the body.
C11_SignedStringLayout ==
  (signedReq # NoSigned /\ signedReq.signer \in relaySigners)
    => /\ DOMAIN signedReq.headers
            = {"checkout-account", "checkout-algorithm", "checkout-method",
               "checkout-nonce", "checkout-timestamp"}
       /\ signedReq.signature.algorithm = "sha256"
       /\ signedReq.signature.key = signedReq.secretKey
       /\ signedReq.signature.msg
            = <<"checkout-account", ":", signedReq.merchantId, LF,
                "checkout-algorithm", ":", "sha256", LF,
                "checkout-method", ":", signedReq.method, LF,
                "checkout-nonce", ":", issued[Len(issued)].nonce, LF,
                "checkout-timestamp", ":", toISOString(signedReq.at), LF>>
              \o signedReq.body

\* a POST signed by the relay with a body that is not empty
C11_Witness ==
  /\ signedReq # NoSigned
  /\ signedReq.signer = "makePaytrailRequestWithCreds"
  /\ signedReq.method = "POST"
  /\ signedReq.body # <<>>

\* the request paths the relay signs for
Uris == {"/payments", "/payments/klarna/charge", "/merchants/payment-providers"}

\* C12: the signature is a function of (account, secret, method, body, nonce,
\* timestamp) only: signing again with the six values of a call, for any
\* request path, at any time and through either signing function, returns
\* the signature of that call.
C12_SignatureOfSixValues ==
  (signedReq # NoSigned /\ signedReq.signer \in relaySigners)
    => \A uri \in Uris :
         /\ createPaytrailSignatureWithCreds(
              signedReq.method, uri, NoHeaders, signedReq.body,
              signedReq.merchantId, signedReq.secretKey,
              signedReq.headers["checkout-timestamp"],
              signedReq.headers["checkout-nonce"]).signature = signedReq.signature
         /\ createPaytrailSignature(
              signedReq.method, uri, NoHeaders, signedReq.body,
              [PAYTRAIL_MERCHANT_ID |-> signedReq.merchantId,
               PAYTRAIL_SECRET_KEY |-> signedReq.secretKey],
              signedReq.headers["checkout-timestamp"],
              signedReq.headers["checkout-nonce"]).signature = signedReq.signature

\* a second call, made after the clock has moved, by the signer that reads
\* its account and secret from the environment
C12_Witness ==
  /\ signedReq # NoSigned
  /\ signedReq.signer = "createPaytrailSignature"
  /\ signedReq.merchantId = "375917"
  /\ signedReq.body # <<>>
  /\ Len(issued) = 2
  /\ signedReq.at > 0

----------------------------------------------------------------------------
(* The browser UI: the token cache of state.js and the async functions     *)
(* that fill and read it.  One step runs a function from one await to the  *)
(* next, as the event loop does.                                           *)

Flows == {"", "TOKENIZED_PAYMENTS", "SIGN_IN_WITH_KLARNA"}

Countries == {"SE", "US"}

UiAuthModes == {"SUB_PARTNER", "ACQUIRING_PARTNER"}

\* sdkConfig.customerTokenCountries
customerTokenCountries == {"US"}

isTokenizedPaymentsFlow(flow) == flow = "TOKENIZED_PAYMENTS"

isInteroperabilityFlow(flow) ==
  flow \in {"KLARNA_EXPRESS_CHECKOUT", "SIGN_IN_WITH_KLARNA",
            "KLARNA_PRE_QUALIFICATION", "KLARNA_ACCOUNT_LINKING"}

hasCustomerTokenForCurrentCountry(ctry) == ctry \in customerTokenCountries

\* sdkConfig.clientId once handleAuthModeChange has copied the mode's config
sdkConfigClientId(mode) ==
  IF mode = "SUB_PARTNER" THEN "SP_CLIENT_ID" ELSE "AP_CLIENT_ID"

\* the interoperability options are shown for US and Acquiring Partner only;
\* a hidden option that is selected is deselected, with no change event
updateInteroperabilityOptionsVisibility(flow, ctry, mode) ==
  IF isInteroperabilityFlow(flow) /\ ~(ctry = "US" /\ mode = "ACQUIRING_PARTNER")
  THEN "" ELSE flow

Cache == [klarna |-> klarna, sdkToken |-> sdkToken,
          interoperabilityToken |-> interoperabilityToken]

resetSDKState(w) ==
  [klarna |-> NoKlarna, sdkToken |-> 0, interoperabilityToken |-> 0]

Await(p, uses) == [pc |-> p, uses |-> uses]

Use(call, token) == [call |-> call, token |-> token]

\* ensureSDK whose step 2 exchanges without looking at the token it holds
EnsureExchange_WithoutToken(w) ==
  IF w.sdkToken = 0
  THEN Await("fetchInteroperabilitySdkToken",
             {Use("interoperability/sdk-tokens", w.interoperabilityToken)})
  ELSE Await("import", {})

\* ensureSDK, step 2 of the interoperability branch, up to its next await
EnsureExchange(w) ==
  IF w.interoperabilityToken # 0 /\ w.sdkToken = 0
  THEN Await("fetchInteroperabilitySdkToken",
             {Use("interoperability/sdk-tokens", w.interoperabilityToken)})
  ELSE Await("import", {})

\* ensureSDK from its interoperability branch up to its next await
EnsureInterop(flow, ctry, w) ==
  IF isInteroperabilityFlow(flow) /\ hasCustomerTokenForCurrentCountry(ctry)
  THEN IF w.interoperabilityToken = 0
       THEN Await("fetchInteroperabilityToken", {})
       ELSE EnsureExchange(w)
  ELSE Await("import", {})

\* ensureSDK from its call up to its first await
ensureSDK(flow, ctry, w) ==
  IF w.klarna.live THEN Await("done", {})
  ELSE IF isTokenizedPaymentsFlow(flow) /\ w.sdkToken = 0
          /\ hasCustomerTokenForCurrentCountry(ctry)
  THEN Await("fetchSdkToken", {})
  ELSE EnsureInterop(flow, ctry, w)

\* fetchApiPresentation up to its fetch: the tokens its request carries
fetchApiPresentation(flow, ctry, w) ==
  IF isInteroperabilityFlow(flow) /\ hasCustomerTokenForCurrentCountry(ctry)
     /\ w.interoperabilityToken = 0
  THEN {}
  ELSE IF isInteroperabilityFlow(flow) /\ w.interoperabilityToken # 0
  THEN {Use("presentation", w.interoperabilityToken)}
  ELSE {}

\* renderPresentation(); renderApiPresentation(), each up to its first await
renderPresentations(flow, ctry, w) ==
  LET e == ensureSDK(flow, ctry, w) IN
  Await(e.pc, e.uses \cup fetchApiPresentation(flow, ctry, w))

\* a render that resets only when asked to, whatever flow is selected
needsTokenReset_OnlyOnRequest(resetTokens, flow) == resetTokens

needsTokenReset(resetTokens, flow) ==
  resetTokens \/ isTokenizedPaymentsFlow(flow) \/ isInteroperabilityFlow(flow)

\* renderBothPresentations(options) up to its first await: the cache it
\* leaves, where it waits, the tokens it sent and the calls it made, in order
renderBothPresentations(resetTokens, flow, ctry, w) ==
  LET w1 == IF needsTokenReset(resetTokens, flow) THEN resetSDKState(w) ELSE w
      log0 == IF needsTokenReset(resetTokens, flow) THEN <<"resetSDKState">> ELSE <<>>
  IN IF isInteroperabilityFlow(flow) /\ hasCustomerTokenForCurrentCountry(ctry)
        /\ w1.interoperabilityToken = 0
     THEN [w |-> w1, pc |-> "renderBothPresentations", uses |-> {},
           log |-> Append(log0, "fetchInteroperabilityToken")]
     ELSE LET r == renderPresentations(flow, ctry, w1) IN
          [w |-> w1, pc |-> r.pc, uses |-> r.uses, log |-> Append(log0, r.pc)]

\* the awaits at which a token fetch is in flight
FetchPcs ==
  {"renderBothPresentations", "fetchSdkToken", "fetchInteroperabilityToken",
   "fetchInteroperabilitySdkToken"}

NewTask(p) == [pc |-> p, stale |-> FALSE, preReset |-> FALSE, clientId |-> NULL]

RemoveAt(seq, i) == SubSeq(seq, 1, i - 1) \o SubSeq(seq, i + 1, Len(seq))

\* the suspended functions wait side by side: which of them was started first
\* decides nothing, so one order stands for all orders of the same functions
Unordered(ts) ==
  CHOOSE s \in {[i \in DOMAIN ts |-> ts[p[i]]] : p \in Permutations(DOMAIN ts)} : TRUE

\* the calls among `uses` that carry a token of an abandoned flow
StaleCalls(uses, ab) == {u.call : u \in {x \in uses : x.token \in ab}}

\* a checkout flow ends here: the cached tokens and the tokens of the fetches
\* in flight belong to the flow that ended
AbandonedNow == abandoned \cup ({sdkToken, interoperabilityToken} \ {0})

\* the history kept is that of the tokens still in the cache: no other token
\* can be read again
Held(w) == {w.sdkToken, w.interoperabilityToken} \ {0}

PruneInits(w) == [t \in DOMAIN initCount |-> IF t = w.sdkToken THEN initCount[t] ELSE 0]

MarkStale(ts) ==
  [i \in DOMAIN ts |->
     IF ts[i].pc \in FetchPcs THEN [ts[i] EXCEPT !.stale = TRUE] ELSE ts[i]]

\* resetSDKState() is called while these functions wait: the token fetches
\* and KlarnaSDK() calls in flight were started before it
MarkPreReset(ts) ==
  [i \in DOMAIN ts |->
     IF ts[i].pc \in FetchPcs \cup {"init"} THEN [ts[i] EXCEPT !.preReset = TRUE]
     ELSE ts[i]]

\* what a settled fetch or KlarnaSDK() call of task t stores
Stores(t, success) == [stored |-> success, preReset |-> success /\ t.preReset]

\* an event handler calls renderBothPresentations({resetTokens}) with the
\* selectors at flow, ctry and mode and the cache at w; pre says that the
\* handler called resetSDKState() itself before the render
StartRender(pre, resetTokens, flow, ctry, mode, w) ==
  LET r == renderBothPresentations(resetTokens, flow, ctry, w)
      reset == pre \/ needsTokenReset(resetTokens, flow)
      ts == IF reset THEN MarkPreReset(MarkStale(tasks)) ELSE MarkStale(tasks) IN
  /\ r.pc = "done" \/ Len(tasks) < MaxTasks
  /\ advancedFlow' = flow
  /\ countrySel' = ctry
  /\ currentAuthMode' = mode
  /\ klarna' = r.w.klarna
  /\ sdkToken' = r.w.sdkToken
  /\ interoperabilityToken' = r.w.interoperabilityToken
  /\ tasks' = Unordered(IF r.pc = "done" THEN ts ELSE Append(ts, NewTask(r.pc)))
  /\ initsSinceReset' = IF reset THEN 0 ELSE initsSinceReset
  /\ lastStore' = NoStore
  /\ abandoned' = AbandonedNow \cap Held(r.w)
  /\ initCount' = PruneInits(r.w)
  /\ staleUses' = StaleCalls(r.uses, AbandonedNow)
  /\ lastRender' = [started |-> TRUE, resetTokens |-> resetTokens, flow |-> flow,
                    hadCache |-> w # resetSDKState(w), log |-> r.log,
                    emptyAtFirstCall |-> r.w = resetSDKState(w)]
  /\ UNCHANGED <<relayVars, signerVars, productVars, productVars>>

\* change of locale, amount or subscription interval
SettingChange ==
  /\ StartRender(FALSE, FALSE, advancedFlow, countrySel, currentAuthMode, Cache)
  /\ UNCHANGED formVars

\* countrySel "change"
CountryChange(ctry) ==
  /\ ctry # countrySel
  /\ StartRender(FALSE, FALSE,
                 updateInteroperabilityOptionsVisibility(advancedFlow, ctry,
                                                         currentAuthMode),
                 ctry, currentAuthMode, Cache)
  /\ UNCHANGED formVars

\* advancedFlowSel "change": only options that are shown can be chosen
AdvancedFlowChange(flow) ==
  /\ flow # advancedFlow
  /\ updateInteroperabilityOptionsVisibility(flow, countrySel, currentAuthMode) = flow
  /\ StartRender(TRUE, FALSE, flow, countrySel, currentAuthMode,
                 resetSDKState(Cache))
  /\ UNCHANGED formVars

\* handleAuthModeChange
AuthModeChange(mode) ==
  /\ mode # currentAuthMode
  /\ StartRender(FALSE, TRUE,
                 updateInteroperabilityOptionsVisibility(advancedFlow, countrySel, mode),
                 countrySel, mode, Cache)
  /\ UNCHANGED formVars

\* the SDK reports "complete": the handler logs and returns false
SdkComplete ==
  /\ klarna.live
  /\ abandoned' = AbandonedNow
  /\ tasks' = Unordered(MarkStale(tasks))
  /\ staleUses' = {}
  /\ lastRender' = NoRender
  /\ lastStore' = NoStore
  /\ UNCHANGED <<relayVars, signerVars, productVars, formVars, advancedFlow, countrySel, currentAuthMode,
                 uiCache, initCount, initsSinceReset>>

\* the SDK reports "tokenupdate" with a new interoperability token
TokenUpdate ==
  /\ klarna.live
  /\ interoperabilityToken' = FreshToken("tokenupdate")
  /\ abandoned' = abandoned \cap {sdkToken}
  /\ staleUses' = {}
  /\ lastRender' = NoRender
  /\ UNCHANGED <<relayVars, signerVars, productVars, formVars, advancedFlow, countrySel, currentAuthMode,
                 klarna, sdkToken, tasks, initCount, initsSinceReset>>
  /\ lastStore' = NoStore

\* initiateApiKlarnaPayment up to its fetch, in an interoperability flow
ApiPayClick ==
  /\ isInteroperabilityFlow(advancedFlow)
  /\ interoperabilityToken # 0
  /\ staleUses' = StaleCalls({Use("payment", interoperabilityToken)}, abandoned)
  /\ lastRender' = NoRender
  /\ UNCHANGED <<relayVars, signerVars, productVars, formVars, advancedFlow, countrySel, currentAuthMode,
                 uiCache, tasks, abandoned, initCount, initsSinceReset>>
  /\ lastStore' = NoStore

\* the token fetch task i waits for settles, and the task runs to its next await
FetchReturns(i, success) ==
  /\ tasks[i].pc \in FetchPcs
  /\ LET p == tasks[i].pc
         t == FreshToken(IF p \in {"fetchSdkToken", "fetchInteroperabilitySdkToken"}
                         THEN "sdkToken" ELSE "interoperabilityToken")
         w1 == IF ~success THEN Cache
               ELSE IF p \in {"fetchSdkToken", "fetchInteroperabilitySdkToken"}
               THEN [Cache EXCEPT !.sdkToken = t]
               ELSE [Cache EXCEPT !.interoperabilityToken = t]
         ab == IF ~success THEN abandoned
               ELSE IF tasks[i].stale THEN abandoned \cup {t} ELSE abandoned \ {t}
         next == CASE p = "renderBothPresentations" ->
                        renderPresentations(advancedFlow, countrySel, w1)
                   [] p = "fetchSdkToken" -> EnsureInterop(advancedFlow, countrySel, w1)
                   [] p = "fetchInteroperabilityToken" -> EnsureExchange(w1)
                   [] OTHER -> Await("import", {})
     IN /\ sdkToken' = w1.sdkToken
        /\ interoperabilityToken' = w1.interoperabilityToken
        /\ abandoned' = ab \cap Held(w1)
        /\ initCount' = IF success /\ t = w1.sdkToken THEN [x \in TokenIds |-> 0]
                        ELSE PruneInits(w1)
        /\ staleUses' = StaleCalls(next.uses, ab)
        /\ tasks' = Unordered(IF next.pc = "done" THEN RemoveAt(tasks, i)
                              ELSE [tasks EXCEPT ![i] = NewTask(next.pc)])
  /\ lastRender' = NoRender
  /\ lastStore' = Stores(tasks[i], success)
  /\ UNCHANGED <<relayVars, signerVars, productVars, formVars, advancedFlow, countrySel, currentAuthMode,
                 klarna, initsSinceReset>>

\* the SDK module is loaded: ensureSDK builds initConfig and calls KlarnaSDK
ImportResolves(i) ==
  /\ tasks[i].pc = "import"
  /\ LET tok == IF (isTokenizedPaymentsFlow(advancedFlow)
                      \/ isInteroperabilityFlow(advancedFlow)) /\ sdkToken # 0
                THEN sdkToken ELSE 0
     IN /\ initCount' = IF tok = 0 THEN initCount
                        ELSE [initCount EXCEPT ![tok] = IF @ < 2 THEN @ + 1 ELSE @]
        /\ staleUses' = IF tok = 0 THEN {}
                        ELSE StaleCalls({Use("KlarnaSDK", tok)}, abandoned)
        /\ tasks' = Unordered([tasks EXCEPT ![i] =
                                 [pc |-> "init", stale |-> FALSE, preReset |-> FALSE,
                                  clientId |-> sdkConfigClientId(currentAuthMode)]])
  /\ initsSinceReset' = IF 0 <= initsSinceReset /\ initsSinceReset < 2
                        THEN initsSinceReset + 1 ELSE initsSinceReset
  /\ lastStore' = NoStore
  /\ lastRender' = NoRender
  /\ UNCHANGED <<relayVars, signerVars, productVars, formVars, advancedFlow, countrySel, currentAuthMode,
                 uiCache, abandoned>>

\* KlarnaSDK(initConfig) settles: setKlarna(klarnaInstance), or the error is
\* caught by renderPresentation
InitResolves(i, success) ==
  /\ tasks[i].pc = "init"
  /\ klarna' = IF success
               THEN [live |-> TRUE, clientId |-> tasks[i].clientId]
               ELSE klarna
  /\ tasks' = Unordered(RemoveAt(tasks, i))
  /\ staleUses' = {}
  /\ lastRender' = NoRender
  /\ lastStore' = Stores(tasks[i], success)
  /\ UNCHANGED <<relayVars, signerVars, productVars, formVars, advancedFlow, countrySel, currentAuthMode,
                 sdkToken, interoperabilityToken, abandoned, initCount, initsSinceReset>>

InitPage ==
  /\ RelayAtRest
  /\ SignerAtRest
  /\ InitUI
  /\ ProductClosed

NextUI ==
  \/ SettingChange
  \/ \E ctry \in Countries : CountryChange(ctry)
  \/ \E flow \in Flows : AdvancedFlowChange(flow)
  \/ \E mode \in UiAuthModes : AuthModeChange(mode)
  \/ SdkComplete
  \/ TokenUpdate
  \/ ApiPayClick
  \/ \E i \in DOMAIN tasks, success \in BOOLEAN : FetchReturns(i, success)
  \/ \E i \in DOMAIN tasks : ImportResolves(i)
  \/ \E i \in DOMAIN tasks, success \in BOOLEAN : InitResolves(i, success)

SpecUI == InitPage /\ [][NextUI]_vars

----------------------------------------------------------------------------
(* Claims about the UI's token cache                                        *)

\* C6: once a checkout flow has completed or been abandoned (payment
\* completed, settings changed, flow or auth mode switched), no SDK
\* initialisation and no relay call carries a token of that flow.
C6_NoTokenOfAnEndedFlowIsUsed == staleUses = {}

\* C7: over any sequence and interleaving of UI events, an SDK token value is
\* passed to at most one KlarnaSDK initialisation.
C7_SdkTokenInitialisedOnce == \A t \in DOMAIN initCount : initCount[t] <= 1

\* C8: every renderBothPresentations call made while a tokenized-payments or
\* interoperability flow is selected, or with resetTokens set, discards the
\* cached SDK instance, SDK token and interoperability token first: the reset
\* is the first thing it does, and its first token fetch or relay call sees an
\* empty cache.
C8_ResetBeforeAnyCall ==
  (lastRender.started
     /\ (lastRender.resetTokens \/ isTokenizedPaymentsFlow(lastRender.flow)
           \/ isInteroperabilityFlow(lastRender.flow)))
    => /\ lastRender.log # <<>>
       /\ Head(lastRender.log) = "resetSDKState"
       /\ lastRender.emptyAtFirstCall

\* a render in the tokenized flow that found a cache to discard and went on
\* to fetch a new SDK token
C8_Witness ==
  /\ lastRender.started /\ ~lastRender.resetTokens
  /\ isTokenizedPaymentsFlow(lastRender.flow)
  /\ lastRender.hadCache
  /\ lastRender.log = <<"resetSDKState", "fetchSdkToken">>

\* the exchange calls (POST /api/interoperability/sdk-tokens) in flight
exchangeCalls(ts) ==
  Cardinality({i \in DOMAIN ts : ts[i].pc = "fetchInteroperabilitySdkToken"})

journeyRefused ==
  /\ handled
  /\ req.ep = "interoperability/test-tokens"
  /\ req.parsed
  /\ req.customerJourney
       \notin {"KLARNA_EXPRESS_CHECKOUT", "SIGN_IN_WITH_KLARNA",
               "KLARNA_PRE_QUALIFICATION", "KLARNA_ACCOUNT_LINKING"}

tableHoldsToken ==
  /\ req.country # NULL
  /\ toUpperCase(req.country) \in env.KLARNA_CUSTOMER_TOKENS

\* C28: the customer-token header is attached to the vendor payment call only
\* if the request sets the include-customer-token flag and the per-country
\* token table holds a token for the request's country, and then it is that
\* token; if either condition fails the header is absent.
C28_CustomerTokenHeaderOnlyIfFlagAndToken ==
  paymentSent
    => IF req.includeCustomerToken /\ tableHoldsToken
       THEN sent.customerToken = getCustomerTokenForCountry(env, req.country)
            /\ sent.customerToken # NULL
       ELSE sent.customerToken = NULL

\* the flag is set and the country, written in lower case, is in the table
C28_Witness ==
  /\ paymentSent
  /\ req.includeCustomerToken /\ req.country = "us"
  /\ "US" \in env.KLARNA_CUSTOMER_TOKENS
  /\ sent.customerToken = "tok_US"

\* C29: the /api/payment-request relay operates in Sub-Partner mode only:
\* whatever authMode the request names, its vendor call is never
\* authenticated with the Acquiring-Partner credential set.
C29_PaymentRequestNeverAcquiringPartner ==
  (handled /\ req.ep = "payment-request" /\ vendorCalls >= 1)
    => /\ sent.authMode # "ACQUIRING_PARTNER"
       /\ sent.authorization # "AP_API_KEY"

----------------------------------------------------------------------------
(* The intents list of the page and the payment request data built from it  *)

\* the intents the page offers as chips
Intents == {"PAY", "DONATE", "ADD_TO_WALLET", "SIGNIN", "SIGNUP", "SUBSCRIBE"}

\* the longest intents list the page is taken to
MaxIntents == 2

Items(ints) == {ints[k] : k \in DOMAIN ints}

\* getSelectedIntents: the list in displayed order, undefined when it is empty
getSelectedIntents(ints) == IF Len(ints) > 0 THEN ints ELSE NULL

\* addIntent: an intent that is in the list is not added again
addIntent(ints, intent) ==
  IF intent \in Items(ints) THEN ints ELSE Append(ints, intent)

removeIntent(ints, intent) == SelectSeq(ints, LAMBDA x : x # intent)

\* the "drop" listener of item: the dragged item is put before item, or
\* before the item that follows it
drop(ints, dragging, item, above) ==
  LET rest == removeIntent(ints, dragging)
      at == CHOOSE k \in DOMAIN rest : rest[k] = item
      before == IF above THEN at - 1 ELSE at
  IN SubSeq(rest, 1, before) \o <<dragging>> \o SubSeq(rest, before + 1, Len(rest))

isOnlyIntent(intents, x) ==
  intents # NULL /\ Len(intents) = 1 /\ intents[1] = x

isPayPlus(intents, x) ==
  intents # NULL /\ Len(intents) = 2 /\ "PAY" \in Items(intents) /\ x \in Items(intents)

\* paymentRequestData without a requestCustomerToken field
NoCustomerToken == [present |-> FALSE]

customerPresent == [present |-> TRUE, scopes |-> <<"payment:customer_present">>]

customerNotPresent ==
  [present |-> TRUE, scopes |-> <<"payment:customer_not_present">>]

\* a builder that asks for both scopes when a payment comes with a subscription
requestCustomerToken_BothScopes(intents) ==
  IF isPayPlus(intents, "SUBSCRIBE")
  THEN [present |-> TRUE,
        scopes |-> <<"payment:customer_present", "payment:customer_not_present">>]
  ELSE IF isOnlyIntent(intents, "SUBSCRIBE") THEN customerNotPresent
  ELSE IF isOnlyIntent(intents, "ADD_TO_WALLET") \/ isPayPlus(intents, "ADD_TO_WALLET")
  THEN customerPresent
  ELSE NoCustomerToken

\* the requestCustomerToken field of buildPaymentRequestData: two if
\* statements in a row, the second overwriting what the first assigned
requestCustomerToken(intents) ==
  LET first == IF isOnlyIntent(intents, "ADD_TO_WALLET")
                    \/ isPayPlus(intents, "ADD_TO_WALLET")
               THEN customerPresent ELSE NoCustomerToken
  IN IF isOnlyIntent(intents, "SUBSCRIBE") \/ isPayPlus(intents, "SUBSCRIBE")
     THEN customerNotPresent ELSE first

\* which supplementaryPurchaseData buildPaymentRequestData attaches
supplementaryPurchaseData(intents) ==
  IF isOnlyIntent(intents, "ADD_TO_WALLET") THEN "ondemandService"
  ELSE IF isPayPlus(intents, "ADD_TO_WALLET") THEN "lineItems+ondemandService"
  ELSE IF isOnlyIntent(intents, "SUBSCRIBE") THEN "lineItems+subscriptions"
  ELSE IF isPayPlus(intents, "SUBSCRIBE") THEN "goods+subscriptions"
  ELSE IF isOnlyIntent(intents, "PAY") \/ isOnlyIntent(intents, "DONATE")
  THEN "lineItems"
  ELSE "purchaseReference"

buildPaymentRequestData(ints) ==
  LET intents == getSelectedIntents(ints) IN
  [built |-> TRUE,
   intents |-> intents,
   supplementaryPurchaseData |-> supplementaryPurchaseData(intents),
   hasAmount |-> \/ isPayPlus(intents, "SUBSCRIBE")
                 \/ ~(\/ isOnlyIntent(intents, "ADD_TO_WALLET")
                      \/ isOnlyIntent(intents, "SIGNIN")
                      \/ isOnlyIntent(intents, "SIGNUP")),
   requestCustomerToken |-> requestCustomerToken(intents)]

\* onIntentsChange: the list has changed and both presentations are rendered
\* again
onIntentsChange(ints) ==
  /\ selectedIntents' = ints
  /\ paymentRequestData' = NoData
  /\ StartRender(FALSE, FALSE, advancedFlow, countrySel, currentAuthMode, Cache)

\* click on the chip of an intent: it is taken off the list if it is on it,
\* and put at its end if it is not
ChipClick(intent) ==
  /\ intent \in Items(selectedIntents) \/ Len(selectedIntents) < MaxIntents
  /\ onIntentsChange(IF intent \in Items(selectedIntents)
                     THEN removeIntent(selectedIntents, intent)
                     ELSE addIntent(selectedIntents, intent))

\* click on the remove button of an item of the list
RemoveClick(intent) ==
  /\ intent \in Items(selectedIntents)
  /\ onIntentsChange(removeIntent(selectedIntents, intent))

\* an item of the list is dragged and dropped on another one
Drop(dragging, item, above) ==
  /\ dragging \in Items(selectedIntents)
  /\ item \in Items(selectedIntents)
  /\ dragging # item
  /\ onIntentsChange(drop(selectedIntents, dragging, item, above))

\* initiateKlarnaPayment or initiateApiKlarnaPayment up to the request body
PayClick ==
  /\ paymentRequestData' = buildPaymentRequestData(selectedIntents)
  /\ staleUses' = {}
  /\ lastRender' = NoRender
  /\ lastStore' = NoStore
  /\ UNCHANGED <<relayVars, signerVars, productVars, selectedIntents, advancedFlow, countrySel,
                 currentAuthMode, uiCache, tasks, abandoned, initCount, initsSinceReset>>

NextForm ==
  \/ \E intent \in Intents : ChipClick(intent)
  \/ \E intent \in Intents : RemoveClick(intent)
  \/ \E dragging \in Intents, item \in Intents, above \in BOOLEAN :
       Drop(dragging, item, above)
  \/ PayClick
  \/ \E i \in DOMAIN tasks : ImportResolves(i)
  \/ \E i \in DOMAIN tasks, success \in BOOLEAN : InitResolves(i, success)

SpecForm == InitPage /\ [][NextForm]_vars

\* the page has built payment request data that asks for a customer token
asksForCustomerToken ==
  /\ paymentRequestData.built
  /\ paymentRequestData.requestCustomerToken.present

\* C30: every customer-token request built by the UI carries exactly one
\* scope, either payment:customer_present or payment:customer_not_present,
\* never both, for every combination of selected intents; the scope follows
\* the intents: customer_not_present with SUBSCRIBE, customer_present with
\* ADD_TO_WALLET.
C30_ExactlyOneScope ==
  asksForCustomerToken
    => LET scopes == paymentRequestData.requestCustomerToken.scopes IN
       /\ Len(scopes) = 1
       /\ scopes[1] \in {"payment:customer_present", "payment:customer_not_present"}
       /\ scopes[1] = "payment:customer_not_present"
            <=> "SUBSCRIBE" \in Items(selectedIntents)
       /\ scopes[1] = "payment:customer_present"
            <=> "ADD_TO_WALLET" \in Items(selectedIntents)

\* a subscription has been put in front of a payment, and the data built
\* for the two asks for a customer-not-present token
C30_Witness ==
  /\ asksForCustomerToken
  /\ selectedIntents = <<"SUBSCRIBE", "PAY">>
  /\ paymentRequestData.requestCustomerToken.scopes = <<"payment:customer_not_present">>

----------------------------------------------------------------------------
(* Further claims about the relay                                           *)

\* the call in progress is a parsed authorize-payment request that names no
\* paymentOptionId, neither at the top level nor inside paymentRequestData
authorizeWithoutOption ==
  /\ handled
  /\ req.ep = "authorize-payment"
  /\ req.parsed
  /\ noPaymentOptionId

\* its paymentRequestData lists ADD_TO_WALLET as its only intent
walletOnlyRequest == req.hasPRD /\ req.intents = <<"ADD_TO_WALLET">>

\* the relay has credentials for the call and, as an Acquiring Partner, an
\* account id to address it to
canAuthorize ==
  LET auth == resolveAuthConfig(env, req.authMode) IN
  /\ auth.ok
  /\ auth.isAcquiringPartner => accountId(auth, req) # NULL

paymentLacksField ==
  /\ handled
  /\ req.ep = "payments"
  /\ req.parsed
  /\ build = "creds" => req.hasPayment
  /\ \E f \in {"stamp", "reference", "amount", "currency", "customer", "redirectUrls"} :
       f \notin req.fields

\* the fields the payment of the call lacks, in the order the relay lists them
lackedFields ==
  SelectSeq(<<"stamp", "reference", "amount", "currency", "customer", "redirectUrls">>,
            LAMBDA f : f \notin req.fields)

chargeAnswered ==
  /\ pc = "done"
  /\ req.ep \in {"payments/klarna/charge", "payments/klarna/authorization-hold"}
  /\ vendorCalls >= 1
  /\ klarnaResponse # NoAnswer

\* Paytrail answered with a JSON body (an empty body reads as {})
paytrailJson == klarnaResponse.kind = "http" /\ klarnaResponse.json

paytrailCreated ==
  /\ paytrailJson
  /\ klarnaResponse.status \in {200, 201}
  /\ klarnaResponse.transactionId # NULL

paytrailStepUp ==
  /\ paytrailJson
  /\ klarnaResponse.status = 403
  /\ klarnaResponse.transactionId # NULL
  /\ klarnaResponse.stepUpUrl # NULL

\* C36: the Klarna charge and authorization-hold relays answer HTTP 201 if
\* and only if the second vendor answered 200 or 201 with a transactionId;
\* every other vendor answer yields 403 (vendor 403 carrying both
\* transactionId and stepUpUrl), the vendor's own 4xx status, or 500.
C36_CreatedIffTransactionId ==
  chargeAnswered
    => /\ resp.http = 201 <=> paytrailCreated
       /\ paytrailCreated => resp.body.transactionId = klarnaResponse.transactionId
       /\ ~paytrailCreated
            => resp.http
                 = IF paytrailStepUp THEN 403
                   ELSE IF /\ paytrailJson
                           /\ klarnaResponse.status >= 400
                           /\ klarnaResponse.status < 500
                           /\ klarnaResponse.status # 403
                   THEN klarnaResponse.status
                   ELSE 500

\* Paytrail has answered an authorization hold 200 with a transactionId, and
\* the relay 201
C36_Witness ==
  /\ chargeAnswered
  /\ req.ep = "payments/klarna/authorization-hold"
  /\ klarnaResponse.status = 200 /\ klarnaResponse.transactionId = "tx_1"
  /\ resp.http = 201

\* C31: the relay copies each line item's totalAmount to total_amount as it
\* is: whenever a payment call has been sent to the vendor, the line_items of
\* its payload are as many as the lineItems of the request, and each has the
\* request's totalAmount as its total_amount, and its quantity and unitPrice
\* as quantity and unit_price, whether or not the total is their product.
C31_TotalAmountCopied ==
  (pc \in {"sent", "done"} /\ vendorCalls > 0
     /\ req.ep \in {"payment-request", "authorize-payment"}
     /\ req.supplementaryPurchaseData.present
     /\ req.supplementaryPurchaseData.hasLineItems)
    => LET items == req.supplementaryPurchaseData.lineItems
           wire == sent.supplementary_purchase_data.line_items IN
       /\ "supplementary_purchase_data" \in sent.keys
       /\ Len(wire) = Len(items)
       /\ \A i \in 1..Len(items) :
            /\ wire[i].total_amount = items[i].totalAmount
            /\ wire[i].quantity = items[i].quantity
            /\ wire[i].unit_price = items[i].unitPrice

\* a payload whose second line item says 150 for two units of 100
C31_Witness ==
  /\ pc = "sent" /\ req.ep = "payment-request"
  /\ req.supplementaryPurchaseData.present
  /\ Len(req.supplementaryPurchaseData.lineItems) = 2
  /\ req.supplementaryPurchaseData.lineItems[2].quantity = 2
  /\ req.supplementaryPurchaseData.lineItems[2].totalAmount = 150
  /\ sent.supplementary_purchase_data.line_items[2].total_amount = 150
  /\ sent.supplementary_purchase_data.line_items[2].unit_price
       * sent.supplementary_purchase_data.line_items[2].quantity = 200

----------------------------------------------------------------------------
(* Claims about concurrent renders of the page                              *)

\* C32: between two consecutive calls of resetSDKState(), KlarnaSDK() is
\* called at most once, whatever the interleaving of the ensureSDK() calls
\* that wait side by side.
C32_OneInitPerReset == initsSinceReset <= 1

\* C33: once resetSDKState() has run, no token fetch and no KlarnaSDK() call
\* that was started before it stores its token or its SDK instance into the
\* cache (from where a render started after the reset would take it).
C33_NothingOfBeforeTheResetIsStored == ~lastStore.preReset

\* C34: once the render started by a switch of the auth mode has finished
\* (and every other render with it), a cached SDK instance was initialised
\* with the client id and partner account id of the mode now selected.
C34_CachedInstanceOfCurrentMode ==
  (tasks = <<>> /\ klarna.live) => klarna.clientId = sdkConfigClientId(currentAuthMode)

----------------------------------------------------------------------------
(* The product page: initializePaymentButton and the "complete" event       *)

\* two of the locales of COUNTRY_MAPPING.FI
ProductLocales == {"en-FI", "fi-FI"}

ProductTask(p, k) == [pc |-> p, inst |-> k]

\* initializeProductPage up to the first await of initializePaymentButton
ProductOpen ==
  /\ productLocale = "en-FI"
  /\ currentSDKLocale = NULL
  /\ productKlarna = 0
  /\ sdkInstances = 0
  /\ completeHandlers = [k \in 1..MaxInstances |-> 0]
  /\ buttonInstance = 0
  /\ productTasks = <<ProductTask("loadConfig", 0)>>
  /\ paymentPosts = 0

InitProduct ==
  /\ RelayAtRest
  /\ SignerAtRest
  /\ InitUI
  /\ ProductOpen

\* "change" of the country or the locale, "input" of the amount: the handler
\* leaves the locale at loc and calls initializePaymentButton(), which runs up
\* to await loadConfig()
ProductSettingChange(loc) ==
  /\ productLocale # NULL
  /\ Len(productTasks) < MaxProductTasks
  /\ productLocale' = loc
  /\ productTasks' = Unordered(Append(productTasks, ProductTask("loadConfig", 0)))
  /\ paymentPosts' = 0
  /\ UNCHANGED <<relayVars, signerVars, pageVars, formVars, currentSDKLocale,
                 productKlarna, sdkInstances, completeHandlers, buttonInstance>>

\* loadConfig() settles: initializePaymentButton resets the SDK state if the
\* locale is not the one of the latest call, and calls ensureSDK(), which
\* returns the cached instance or waits for the import of the SDK module;
\* with an instance it goes on to Payment.presentation()
ConfigLoaded(i, configLoaded) ==
  /\ productTasks[i].pc = "loadConfig"
  /\ IF ~configLoaded
     THEN /\ productTasks' = Unordered(RemoveAt(productTasks, i))
          /\ UNCHANGED <<currentSDKLocale, productKlarna>>
     ELSE LET reset == currentSDKLocale # NULL /\ currentSDKLocale # productLocale
              k == IF reset THEN 0 ELSE productKlarna
          IN /\ currentSDKLocale' = productLocale
             /\ productKlarna' = k
             /\ productTasks' =
                  Unordered([productTasks EXCEPT ![i] =
                               IF k # 0 THEN ProductTask("presentation", k)
                               ELSE ProductTask("import", 0)])
  /\ paymentPosts' = 0
  /\ UNCHANGED <<relayVars, signerVars, pageVars, formVars, productLocale, sdkInstances,
                 completeHandlers, buttonInstance>>

\* the SDK module is loaded: ensureSDK calls KlarnaSDK(initConfig)
ProductImportResolves(i) ==
  /\ productTasks[i].pc = "import"
  /\ productTasks' = Unordered([productTasks EXCEPT ![i] = ProductTask("init", 0)])
  /\ paymentPosts' = 0
  /\ UNCHANGED <<relayVars, signerVars, pageVars, formVars, productLocale,
                 currentSDKLocale, productKlarna, sdkInstances, completeHandlers,
                 buttonInstance>>

\* KlarnaSDK(initConfig) settles: ensureSDK caches the new instance and
\* initializePaymentButton calls Payment.presentation() on it; or it throws
\* and initializePaymentButton writes the error into the button container
ProductInitResolves(i, success) ==
  /\ productTasks[i].pc = "init"
  /\ IF success
     THEN /\ sdkInstances < MaxInstances
          /\ sdkInstances' = sdkInstances + 1
          /\ productKlarna' = sdkInstances + 1
          /\ productTasks' =
               Unordered([productTasks EXCEPT ![i] =
                            ProductTask("presentation", sdkInstances + 1)])
          /\ UNCHANGED buttonInstance
     ELSE /\ productTasks' = Unordered(RemoveAt(productTasks, i))
          /\ buttonInstance' = 0
          /\ UNCHANGED <<sdkInstances, productKlarna>>
  /\ paymentPosts' = 0
  /\ UNCHANGED <<relayVars, signerVars, pageVars, formVars, productLocale,
                 currentSDKLocale, completeHandlers>>

PresentationOutcomes == {"paymentOption", "noPaymentOption", "error"}

\* Payment.presentation() settles: with a payment option the container is
\* emptied, the button of this instance is mounted and one more "complete"
\* handler is registered with klarnaInstance.Payment.on.  The SDK keeps every
\* handler registered with on(): attachSDKEventListeners of sdk.js has
\* registered a "complete" handler on the same instance, and the page adds its
\* own to it.
PresentationResolves(i, outcome) ==
  /\ productTasks[i].pc = "presentation"
  /\ LET k == productTasks[i].inst IN
       CASE outcome = "paymentOption" ->
              /\ buttonInstance' = k
              /\ completeHandlers' =
                   [completeHandlers EXCEPT ![k] = IF @ < MaxHandlers THEN @ + 1 ELSE @]
         [] outcome = "noPaymentOption" ->
              UNCHANGED <<buttonInstance, completeHandlers>>
         [] OTHER ->
              /\ buttonInstance' = 0
              /\ UNCHANGED completeHandlers
  /\ productTasks' = Unordered(RemoveAt(productTasks, i))
  /\ paymentPosts' = 0
  /\ UNCHANGED <<relayVars, signerVars, pageVars, formVars, productLocale,
                 currentSDKLocale, productKlarna, sdkInstances>>

\* the SDK instance of the mounted button reports "complete": each handler
\* the page registered on it runs up to its fetch of /api/payments, unless the
\* event carries no session token or the skip box is ticked
PaymentComplete(hasToken, skip) ==
  /\ buttonInstance # 0
  /\ paymentPosts' = IF hasToken /\ ~skip THEN completeHandlers[buttonInstance] ELSE 0
  /\ UNCHANGED <<relayVars, signerVars, pageVars, formVars, productLocale,
                 currentSDKLocale, productKlarna, sdkInstances, completeHandlers,
                 buttonInstance, productTasks>>

NextProduct ==
  \/ \E loc \in ProductLocales : ProductSettingChange(loc)
  \/ \E i \in DOMAIN productTasks, loaded \in BOOLEAN : ConfigLoaded(i, loaded)
  \/ \E i \in DOMAIN productTasks : ProductImportResolves(i)
  \/ \E i \in DOMAIN productTasks, success \in BOOLEAN :
       ProductInitResolves(i, success)
  \/ \E i \in DOMAIN productTasks, o \in PresentationOutcomes : PresentationResolves(i, o)
  \/ \E hasToken \in BOOLEAN, skip \in BOOLEAN : PaymentComplete(hasToken, skip)

SpecProduct == InitProduct /\ [][NextProduct]_vars

\* C35: on the product page a "complete" event of the SDK leads to at most
\* one POST to /api/payments, however many times the payment button was
\* initialised again (change of country, locale or amount) before the event.
C35_OnePostPerComplete == paymentPosts <= 1

====
